---- MODULE Spec2Model ----
(***************************************************************************)
(* State-machine model of the rlm_repl package: the deferred-operation     *)
(* registry (deferred.py), the sandbox evaluator (sandbox.py) and the      *)
(* JSON-RPC server (main.py).                                              *)
(*                                                                         *)
(* Operation ids are uuid4 strings in the code.  The model numbers the     *)
(* DeferredOperation objects in the order in which they are constructed:   *)
(* id i is the i-th object created, so the number is at once the identity  *)
(* of the object and its creation rank.                                    *)
(***************************************************************************)
EXTENDS Integers, Sequences, FiniteSets, TLC

\* Bounds of the model: how many DeferredOperation objects are ever created,
\* and how many times one script calls SUBMIT.
MaxOps == 2
MaxSubmits == 3

VARIABLES
    ops,        \* every DeferredOperation object ever constructed, by id
    registry,   \* DeferredRegistry._operations: the ids in dict (insertion) order
    locals,     \* Sandbox.locals: the session namespace, name -> value
    globals,    \* Sandbox.globals: the environment scripts run in, name -> value
    running,    \* ReplServer.running
    req,        \* the request or call handled last
    resp,       \* its reply (JSON-RPC response, or return/raise of a direct call)
    trace,      \* what each statement of the last executed script did
    signature_registration,   \* ReplServer.signature_registration
    submit_count,             \* Sandbox._submit_count
    submit_result,            \* Sandbox._submit_result
    line,       \* run(): the input line read last
    written,    \* run(): what was written to standard output while it was handled
    loop        \* run(): where the server loop is

vars == <<ops, registry, locals, globals, running, req, resp, trace,
          signature_registration, submit_count, submit_result, line, written, loop>>

----------------------------------------------------------------------------
(* Values held by script variables, results and replies.  One record shape *)
(* for all: t is the Python type, s a string payload, n a numeric payload  *)
(* (an operation id for a handle).                                         *)

NoneV == [t |-> "none", s |-> "", n |-> 0]
StrV(s) == [t |-> "str", s |-> s, n |-> 0]
BoolV(b) == [t |-> "bool", s |-> IF b THEN "True" ELSE "False", n |-> 0]
IntV(n) == [t |-> "int", s |-> "", n |-> n]
OpRef(i) == [t |-> "op", s |-> "", n |-> i]
FloatV(n) == [t |-> "float", s |-> "", n |-> n]
\* A dict whose contents the model does not look into.
DictV == [t |-> "dict", s |-> "", n |-> 0]
\* A key that a dict does not hold.
Absent == [t |-> "absent", s |-> "", n |-> 0]
\* A name that is bound nowhere (lookup raises NameError).
Unbound == [t |-> "unbound", s |-> "", n |-> 0]

\* len() of the string payloads the model uses.
StrLen(s) ==
    CASE s = "" -> 0
      [] s = "ok" -> 2
      [] s = "m" -> 1
      [] OTHER -> 4

\* Python truthiness of a value.
Truthy(v) ==
    CASE v.t = "none" -> FALSE
      [] v.t = "str" -> v.s # ""
      [] v.t = "bool" -> v.s = "True"
      [] v.t = "int" -> v.n # 0
      [] OTHER -> TRUE

\* str() of a plain value.
PyStr(v) ==
    CASE v.t = "none" -> StrV("None")
      [] v.t = "str" -> v
      [] v.t = "bool" -> StrV(v.s)
      [] v.t = "int" -> StrV(ToString(v.n))
      [] OTHER -> StrV("<object>")

----------------------------------------------------------------------------
(* deferred.py: OperationState, DeferredOperation.                         *)

PENDING == "pending"
RESOLVED == "resolved"
FAILED == "failed"
OperationState == {PENDING, RESOLVED, FAILED}

LLM_CALL == "llm_call"
LLM_BATCH == "llm_batch"
SUMMARIZE == "summarize"
EMBED == "embed"
MAP_REDUCE == "map_reduce"
OperationType == {LLM_CALL, LLM_BATCH, SUMMARIZE, EMBED, MAP_REDUCE}

\* The dataclass as constructed: state PENDING, result None, error None.
\* error None is the empty record value NoneV; a set error is a StrV.
DeferredOperation(operation_type, params) ==
    [operation_type |-> operation_type, params |-> params,
     state |-> PENDING, result |-> NoneV, error |-> NoneV]

is_pending(op) == op.state = PENDING
is_resolved(op) == op.state = RESOLVED
is_failed(op) == op.state = FAILED

\* What a call does: it returns a value or raises an exception.
Return(v) == [kind |-> "return", etype |-> "", id |-> 0, value |-> v]
Raise(etype, i, msg) == [kind |-> "raise", etype |-> etype, id |-> i, value |-> StrV(msg)]

PendingOperationError(i) == Raise("PendingOperationError", i, "Operation is still pending")

\* A method call on an object: what the call does and the object afterwards.
Call(out, op) == [out |-> out, op |-> op]

\* resolve without the state check: a terminal operation is overwritten.
resolve_unchecked(op, result) ==
    Call(Return(NoneV), [op EXCEPT !.result = result, !.state = RESOLVED])

\* DeferredOperation.resolve (deferred.py:70-75).
resolve(op, result) ==
    IF op.state # PENDING
    THEN Call(Raise("RuntimeError", 0, "Cannot resolve operation"), op)
    ELSE Call(Return(NoneV), [op EXCEPT !.result = result, !.state = RESOLVED])

\* fail leaving the error text in result as well.
fail_marking(op, error) ==
    IF op.state # PENDING
    THEN Call(Raise("RuntimeError", 0, "Cannot fail operation"), op)
    ELSE Call(Return(NoneV), [op EXCEPT !.error = error, !.result = error, !.state = FAILED])

\* DeferredOperation.fail (deferred.py:77-82).
fail(op, error) ==
    IF op.state # PENDING
    THEN Call(Raise("RuntimeError", 0, "Cannot fail operation"), op)
    ELSE Call(Return(NoneV), [op EXCEPT !.error = error, !.state = FAILED])

\* get without the FAILED branch: a failed operation hands out its result.
get_no_failed(op, i) ==
    IF op.state = PENDING THEN PendingOperationError(i) ELSE Return(op.result)

\* DeferredOperation.get (deferred.py:84-95); i is the operation's own id.
\* "self.error or 'Operation failed'": an empty error gives the default text.
get(op, i) ==
    IF op.state = PENDING THEN PendingOperationError(i)
    ELSE IF op.state = FAILED
    THEN Raise("DeferredOperationError", 0,
               IF Truthy(op.error) THEN op.error.s ELSE "Operation failed")
    ELSE Return(op.result)

\* self.id[:8]: the first eight characters of the uuid, here the id's digits.
IdPrefix(i) == ToString(i)

\* DeferredOperation.__repr__ (deferred.py:97-98).
repr(op, i) ==
    Return(StrV("DeferredOperation(" \o IdPrefix(i) \o "..., " \o op.operation_type
                \o ", " \o op.state \o ")"))

\* __str__ raising the pending signal like the other probes.
str_raising(op, i) ==
    IF is_resolved(op) THEN Return(PyStr(op.result)) ELSE PendingOperationError(i)

\* DeferredOperation.__str__ (deferred.py:101-104).
str(op, i) ==
    IF is_resolved(op) THEN Return(PyStr(op.result))
    ELSE Return(StrV("<Deferred:" \o IdPrefix(i) \o ">"))

\* bool() of a plain value never raises.
PyBool(v) == Return(BoolV(Truthy(v)))

\* len() of a plain value: only the strings have a length here.
PyLen(v) ==
    IF v.t = "str" THEN Return(IntV(StrLen(v.s)))
    ELSE Raise("TypeError", 0, "object has no len()")

\* iter() of a plain value: only the strings are iterable here.
PyIter(v) ==
    IF v.t = "str" THEN Return([t |-> "iterator", s |-> v.s, n |-> 0])
    ELSE Raise("TypeError", 0, "object is not iterable")

\* __bool__ raising for a failed operation what get() raises for it.
bool_as_get(op, i) ==
    IF is_resolved(op) THEN PyBool(op.result)
    ELSE IF op.state = FAILED
    THEN Raise("DeferredOperationError", 0,
               IF Truthy(op.error) THEN op.error.s ELSE "Operation failed")
    ELSE PendingOperationError(i)

\* DeferredOperation.__bool__ (deferred.py:106-109).
bool(op, i) ==
    IF is_resolved(op) THEN PyBool(op.result) ELSE PendingOperationError(i)

\* __len__ answering for the stored result whatever the state: 0 for the
\* None of a pending operation would need len(None); the slip modelled is a
\* pending operation reported as empty.
len_pending_empty(op, i) ==
    IF is_resolved(op) THEN PyLen(op.result)
    ELSE IF is_pending(op) THEN Return(IntV(0)) ELSE PendingOperationError(i)

\* DeferredOperation.__len__ (deferred.py:111-114).
len(op, i) ==
    IF is_resolved(op) THEN PyLen(op.result) ELSE PendingOperationError(i)

\* DeferredOperation.__iter__ (deferred.py:116-119).
iter(op, i) ==
    IF is_resolved(op) THEN PyIter(op.result) ELSE PendingOperationError(i)

\* The probes a caller can make of an operation.
Probes == {"get", "bool", "len", "iter", "str", "repr"}

Probe(p, op, i) ==
    CASE p = "get" -> get(op, i)
      [] p = "bool" -> bool(op, i)
      [] p = "len" -> len(op, i)
      [] p = "iter" -> iter(op, i)
      [] p = "str" -> str(op, i)
      [] OTHER -> repr(op, i)

----------------------------------------------------------------------------
(* deferred.py: DeferredRegistry.  The dict _operations is the sequence    *)
(* `registry` of its keys in insertion order; the values are in `ops`.     *)

\* Ids the model has objects for, and ids a caller may name.
Ids == 1..MaxOps
Created == DOMAIN ops

InRegistry(reg, i) == \E k \in DOMAIN reg : reg[k] = i

\* DeferredRegistry.pending_ids (deferred.py:184-186): the dict's values in
\* dict order, those that are pending.
pending_ids(reg, os) == SelectSeq(reg, LAMBDA i : is_pending(os[i]))

\* DeferredRegistry.pending_operations (deferred.py:188-190): the same
\* selection, as the objects themselves (the model hands out their ids).
pending_operations(reg, os) == SelectSeq(reg, LAMBDA i : is_pending(os[i]))

\* DeferredRegistry.__len__ (deferred.py:207-208).
registry_len(reg) == Len(reg)

\* A new key put first in the enumeration order.
DictInsert_front(reg, i) == <<i>> \o reg

\* dict insertion of a new key: appended at the end of the dict order.
DictInsert(reg, i) == Append(reg, i)

\* del dict[key] for each key to remove: the other keys keep their order.
DictRemove(reg, gone) == SelectSeq(reg, LAMBDA i : i \notin gone)

\* clear_resolved removing the resolved entries only, the failed ones kept.
to_remove_resolved(reg, os) == {reg[k] : k \in {j \in DOMAIN reg : os[reg[j]].state = RESOLVED}}

\* DeferredRegistry.clear_resolved (deferred.py:192-201): the ids removed.
to_remove(reg, os) == {reg[k] : k \in {j \in DOMAIN reg : ~is_pending(os[reg[j]])}}

\* DeferredRegistry.create (deferred.py:151-164): a new pending operation
\* under a fresh id, inserted in the dict.  "params or {}": None and the
\* empty dict both give {}.
ParamsOrEmpty(params) == IF params = "None" \/ params = "{}" THEN "{}" ELSE params

create(reg, os, operation_type, params) ==
    [id |-> Len(os) + 1,
     ops |-> Append(os, DeferredOperation(operation_type, ParamsOrEmpty(params))),
     registry |-> DictInsert(reg, Len(os) + 1)]

\* resolve answering without storing what the operation became.
registry_resolve_lost(reg, os, i, result) ==
    IF ~InRegistry(reg, i)
    THEN [out |-> Raise("KeyError", 0, "Unknown operation"), ops |-> os]
    ELSE [out |-> resolve(os[i], result).out, ops |-> os]

\* DeferredRegistry.resolve (deferred.py:170-175).
Stored(os, i, c) == [out |-> c.out, ops |-> [os EXCEPT ![i] = c.op]]

registry_resolve(reg, os, i, result) ==
    IF ~InRegistry(reg, i)
    THEN [out |-> Raise("KeyError", 0, "Unknown operation"), ops |-> os]
    ELSE Stored(os, i, resolve(os[i], result))

\* fail looking the id up among all objects ever created, not in the dict.
registry_fail_any(reg, os, i, error) ==
    IF i \notin DOMAIN os
    THEN [out |-> Raise("KeyError", 0, "Unknown operation"), ops |-> os]
    ELSE Stored(os, i, fail(os[i], error))

\* DeferredRegistry.fail (deferred.py:177-182).
registry_fail(reg, os, i, error) ==
    IF ~InRegistry(reg, i)
    THEN [out |-> Raise("KeyError", 0, "Unknown operation"), ops |-> os]
    ELSE Stored(os, i, fail(os[i], error))

----------------------------------------------------------------------------
(* sandbox.py: SUBMIT and its validation against the registered signature. *)
(* The outputs a script submits are a dict over the names below (a name    *)
(* maps to Absent when the dict has no such key) or a value that is not a  *)
(* dict.  Field types are the scalar ones, enum, custom and an unknown     *)
(* tag; the list and object types, which recurse, are not drawn.           *)

OutNames == {"answer", "score"}

Outputs(isdict, v, items) == [isdict |-> isdict, v |-> v, items |-> items]
NoItems == [n \in OutNames |-> Absent]
DictOf(items) == Outputs(TRUE, NoneV, items)
PlainOf(v) == Outputs(FALSE, v, NoItems)

\* _serialize_submit_value (sandbox.py:49-65) of one value: scalars as they
\* are, an object through its __dict__, anything else through str().
serialize_value(v) ==
    IF v.t \in {"none", "str", "int", "float", "bool", "absent"} THEN v
    ELSE IF v.t \in {"op", "dict"} THEN DictV
    ELSE PyStr(v)

\* _serialize_submit_value (sandbox.py:49-65) of what SUBMIT was given.
serialize_submit_value(o) ==
    IF o.isdict
    THEN DictOf([n \in OutNames |-> serialize_value(o.items[n])])
    ELSE IF serialize_value(o.v).t = "dict" THEN DictOf(NoItems)
    ELSE PlainOf(serialize_value(o.v))

\* _type_name (sandbox.py:76-92).
type_name(v) ==
    IF v.t = "none" THEN "null"
    ELSE IF v.t = "bool" THEN "boolean"
    ELSE IF v.t = "int" THEN "integer"
    ELSE IF v.t = "float" THEN "number"
    ELSE IF v.t = "str" THEN "string"
    ELSE IF v.t = "dict" THEN "object"
    ELSE v.t

\* isinstance(value, ...) for the types validation asks about: bool is a
\* subclass of int in Python.
IsStr(v) == v.t = "str"
IsBool(v) == v.t = "bool"
IsInt(v) == v.t \in {"int", "bool"}
IsFloat(v) == v.t = "float"

\* A field type {type, value}: value holds the allowed members of an enum.
FieldType(tag, allowed) == [type |-> tag, value |-> allowed]
\* A field spec of a registered signature.
FieldSpec(name, field_type, required) ==
    [name |-> name, field_type |-> field_type, required |-> required]

\* One structured error; the keys an error kind does not have are empty.
SubmitError(error_type, field) ==
    [error_type |-> error_type, field |-> field, count |-> 0,
     expected |-> "", got |-> "", value |-> "", reason |-> ""]

\* _append_type_mismatch (sandbox.py:556-571).
append_type_mismatch(field_name, expected_type, value) ==
    <<[SubmitError("type_mismatch", field_name) EXCEPT
          !.expected = expected_type.type, !.got = type_name(value)]>>

\* The float check accepting only float instances.
float_mismatch_exact(value) == ~IsFloat(value)

\* The float check (sandbox.py:475-478): int and float instances pass,
\* bool does not.
float_mismatch(value) == (~(IsInt(value) \/ IsFloat(value))) \/ IsBool(value)

\* _validate_field_value (sandbox.py:457-554): the errors it appends.
validate_field_value(field_name, field_type, value) ==
    IF field_type.type = "string"
    THEN IF ~IsStr(value) THEN append_type_mismatch(field_name, field_type, value) ELSE <<>>
    ELSE IF field_type.type = "integer"
    THEN IF ~IsInt(value) \/ IsBool(value)
         THEN append_type_mismatch(field_name, field_type, value) ELSE <<>>
    ELSE IF field_type.type = "float"
    THEN IF float_mismatch(value)
         THEN append_type_mismatch(field_name, field_type, value) ELSE <<>>
    ELSE IF field_type.type = "boolean"
    THEN IF ~IsBool(value) THEN append_type_mismatch(field_name, field_type, value) ELSE <<>>
    ELSE IF field_type.type = "enum"
    THEN IF ~IsStr(value) THEN append_type_mismatch(field_name, field_type, value)
         ELSE IF value.s \notin field_type.value
         THEN <<[SubmitError("enum_invalid", field_name) EXCEPT !.value = value.s]>>
         ELSE <<>>
    ELSE IF field_type.type = "custom" THEN <<>>
    ELSE <<[SubmitError("validation_failed", field_name) EXCEPT
               !.reason = "Unknown field type: " \o field_type.type]>>

\* "field_name in outputs".
InOutputs(outputs, name) == name \in DOMAIN outputs.items /\ outputs.items[name].t # "absent"

\* Reporting a missing field whether or not it is required.
field_errors_all_required(f, outputs) ==
    IF ~InOutputs(outputs, f.name)
    THEN <<[SubmitError("missing_field", f.name) EXCEPT !.expected = f.field_type.type]>>
    ELSE validate_field_value(f.name, f.field_type, outputs.items[f.name])

\* One round of the loop over output_fields (sandbox.py:437-453).
field_errors(f, outputs) ==
    IF f.required /\ ~InOutputs(outputs, f.name)
    THEN <<[SubmitError("missing_field", f.name) EXCEPT !.expected = f.field_type.type]>>
    ELSE IF InOutputs(outputs, f.name)
    THEN validate_field_value(f.name, f.field_type, outputs.items[f.name])
    ELSE <<>>

RECURSIVE fields_errors(_, _, _)
fields_errors(output_fields, k, outputs) ==
    IF k > Len(output_fields) THEN <<>>
    ELSE field_errors(output_fields[k], outputs) \o fields_errors(output_fields, k + 1, outputs)

\* Sandbox._validate_submit_outputs (sandbox.py:424-455).
validate_submit_outputs(registration, outputs) ==
    IF ~outputs.isdict
    THEN <<[SubmitError("validation_failed", "") EXCEPT
               !.reason = "SUBMIT outputs must be an object"]>>
    ELSE fields_errors(registration.output_fields, 1, outputs)

\* signature_registration: None, or the registered output_fields.
NoSignature == [registered |-> FALSE, output_fields |-> <<>>]
Signature(output_fields) == [registered |-> TRUE, output_fields |-> output_fields]

\* _submit_result: None, or {status, errors, outputs}; outputs is the key
\* "outputs" of a success and the key "original_outputs" of a validation
\* error.
NoSubmit == [status |-> "", errors |-> <<>>, outputs |-> PlainOf(NoneV)]
SubmitSuccess(outputs) == [status |-> "success", errors |-> <<>>, outputs |-> outputs]
ValidationError(errors, outputs) ==
    [status |-> "validation_error", errors |-> errors, outputs |-> outputs]

\* The outcome of a validated SUBMIT (sandbox.py:410-421).
Validated(errors, outputs) ==
    IF errors # <<>> THEN ValidationError(errors, outputs) ELSE SubmitSuccess(outputs)

\* The outcome recorded without looking at the count.
submit_outcome_uncounted(count, registration, outputs) ==
    IF ~registration.registered
    THEN ValidationError(<<SubmitError("no_signature_registered", "")>>, outputs)
    ELSE Validated(validate_submit_outputs(registration, outputs), outputs)

\* Sandbox._submit (sandbox.py:384-422): the outcome recorded by the
\* invocation that made the count what it is.
submit_outcome(count, registration, outputs) ==
    IF count > 1
    THEN ValidationError(<<[SubmitError("multiple_submits", "") EXCEPT !.count = count]>>,
                         outputs)
    ELSE IF ~registration.registered
    THEN ValidationError(<<SubmitError("no_signature_registered", "")>>, outputs)
    ELSE Validated(validate_submit_outputs(registration, outputs), outputs)

\* Sandbox._reset_submit_state skipped.
reset_submit_state_kept(st) == st

\* Sandbox._reset_submit_state (sandbox.py:380-382).
reset_submit_state(st) == [st EXCEPT !.submit_result = NoSubmit, !.submit_count = 0]

\* ReplServer._submit_error_message (main.py:232-261), e being errors[0].
first_error_message(e) ==
    IF e.error_type = "no_signature_registered"
    THEN "SUBMIT called but no signature was registered"
    ELSE IF e.error_type = "missing_field"
    THEN "SUBMIT missing required field '" \o e.field \o "'"
    ELSE IF e.error_type = "type_mismatch"
    THEN "SUBMIT field '" \o e.field \o "' expected " \o e.expected \o ", got " \o e.got
    ELSE IF e.error_type = "multiple_submits"
    THEN "SUBMIT called multiple times (" \o ToString(e.count) \o ")"
    ELSE IF e.error_type = "enum_invalid"
    THEN "SUBMIT field '" \o e.field \o "' has invalid enum value '" \o e.value \o "'"
    ELSE IF e.error_type = "validation_failed"
    THEN "SUBMIT validation failed: " \o e.reason
    ELSE "SUBMIT validation failed"

submit_error_message(result) ==
    IF result.errors = <<>> THEN "SUBMIT validation failed"
    ELSE first_error_message(result.errors[1])

----------------------------------------------------------------------------
(* Scripts.  A script is a sequence of statements of the forms below; a    *)
(* guarded statement is the statement inside "try: ... except Exception:   *)
(* pass", or inside "try: ... except BaseException: pass" when base is     *)
(* set (test_repl.py:371-376).                                             *)

\* Names scripts use: h for a handle, x for a plain value.
Vars == {"h", "x"}

\* A helper function or guard bound in Sandbox.globals.
FunctionV == [t |-> "function", s |-> "", n |-> 0]

\* Names of the RLM helper bindings and of the builtin infrastructure that
\* _setup_environment installs (sandbox.py:305-339); the model keeps one of
\* each.
Helpers == {"peek"}
Infrastructure == {"_getattr_", "DeferredOperation"}

\* Every name the model uses: script names, the result name "_", an
\* underscore-prefixed name, the names imports bind, a helper, a guard and
\* the exposed class.
Names == Vars \cup {"_", "_y", "math", "os", "collections"} \cup Helpers \cup Infrastructure

\* An empty namespace: a dict holds the names that are bound.
NoLocals == [n \in {} |-> Unbound]

\* Name lookup in the session namespace.
Lookup(ns, name) == IF name \in DOMAIN ns THEN ns[name] ELSE Unbound

\* ns[name] = value on a dict.
Bind(ns, name, value) ==
    [n \in DOMAIN ns \cup {name} |-> IF n = name THEN value ELSE ns[n]]

\* _setup_environment installing only the names that are not bound yet.
setup_environment_once(g) ==
    [n \in DOMAIN g \cup Helpers \cup Infrastructure |->
        IF n \in DOMAIN g THEN g[n] ELSE FunctionV]

\* Sandbox._setup_environment (sandbox.py:305-339): the guards and helper
\* bindings are (re)installed in globals, other names are left alone.
setup_environment(g) ==
    [n \in DOMAIN g \cup Helpers \cup Infrastructure |->
        IF n \in Helpers \cup Infrastructure THEN FunctionV ELSE g[n]]

\* _guarded_import (sandbox.py:221-255): the modules a script may import.
allowed_modules ==
    {"math", "re", "json", "collections", "itertools", "functools", "operator",
     "string", "textwrap", "datetime", "decimal", "fractions", "statistics",
     "random", "copy", "pprint", "dataclasses", "typing", "enum", "abc"}

\* A module object.
ModuleV(name) == [t |-> "module", s |-> name, n |-> 0]

\* The import hook letting every module in.
guarded_import_open(name) == Return(ModuleV(name))

\* _guarded_import (sandbox.py:221-255): name is the dotted name the import
\* statement hands to __import__.
guarded_import(name) ==
    IF name \notin allowed_modules
    THEN Raise("SandboxError", 0, "Import of '" \o name \o "' is not allowed")
    ELSE Return(ModuleV(name))

\* str.startswith.
startswith(name, prefix) ==
    Len(name) >= Len(prefix) /\ SubSeq(name, 1, Len(prefix)) = prefix

\* type(value).__name__.
PyTypeName(v) ==
    IF v.t = "none" THEN "NoneType"
    ELSE IF v.t = "op" THEN "DeferredOperation"
    ELSE v.t

\* _serialize_result (main.py:329-343): None, str, int, float and bool go
\* as they are; an object with a __dict__ (a DeferredOperation, a function)
\* goes as a dict of its public attributes.
serialize_result(v) ==
    IF v.t \in {"none", "str", "int", "float", "bool"} THEN v ELSE DictV

\* set_variable binding whatever name it is given.
set_variable_any(name, value, ns, g) ==
    [locals |-> Bind(ns, name, value), globals |-> Bind(g, name, value),
     out |-> Return(NoneV)]

\* set_variable testing the name after it has bound it.
set_variable_late(name, value, ns, g) ==
    [locals |-> Bind(ns, name, value), globals |-> Bind(g, name, value),
     out |-> IF startswith(name, "_") /\ name # "_"
             THEN Raise("SandboxError", 0, "Cannot set variable with name")
             ELSE Return(NoneV)]

\* Sandbox.set_variable (sandbox.py:625-630).
set_variable(name, value, ns, g) ==
    IF startswith(name, "_") /\ name # "_"
    THEN [locals |-> ns, globals |-> g,
          out |-> Raise("SandboxError", 0, "Cannot set variable with name")]
    ELSE [locals |-> Bind(ns, name, value), globals |-> Bind(g, name, value),
          out |-> Return(NoneV)]

\* Sandbox.get_variable (sandbox.py:632-638): locals, then globals.
get_variable(name, ns, g) ==
    IF name \in DOMAIN ns THEN Return(ns[name])
    ELSE IF name \in DOMAIN g THEN Return(g[name])
    ELSE Raise("KeyError", 0, "Variable not found")

\* The names list_variables skips (sandbox.py:646-674).
skip == Infrastructure \cup Helpers

\* The merge in which globals win.
Merged_globals_win(ns, g) ==
    [n \in DOMAIN g \cup DOMAIN ns |-> IF n \in DOMAIN g THEN g[n] ELSE ns[n]]

\* {**self.globals, **self.locals} (sandbox.py:677): locals win.
Merged(ns, g) ==
    [n \in DOMAIN g \cup DOMAIN ns |-> IF n \in DOMAIN ns THEN ns[n] ELSE g[n]]

\* list_variables skipping only the underscore-prefixed names.
list_variables_unskipped(ns, g) ==
    [n \in {m \in DOMAIN Merged(ns, g) : ~startswith(m, "_")} |->
        PyTypeName(Merged(ns, g)[n])]

\* Sandbox.list_variables (sandbox.py:644-680): name -> type label.
list_variables(ns, g) ==
    [n \in {m \in DOMAIN Merged(ns, g) : m \notin skip /\ ~startswith(m, "_")} |->
        PyTypeName(Merged(ns, g)[n])]

\* len() of the listing.
variables_count(listing) == Cardinality(DOMAIN listing)

Stmt(k, t, v, guarded) ==
    [k |-> k, t |-> t, v |-> v, guarded |-> guarded, base |-> FALSE, o |-> PlainOf(NoneV)]

Llm(t) == Stmt("llm", t, "", FALSE)              \* t = llm('q')
Get(t, v) == Stmt("get", t, v, FALSE)            \* t = v.get()
Bool(v) == Stmt("bool", "", v, FALSE)            \* bool(v)
LenOf(v) == Stmt("len", "", v, FALSE)            \* len(v)
Iter(v) == Stmt("iter", "", v, FALSE)            \* list(v)
Str(v) == Stmt("str", "", v, FALSE)              \* str(v)
Repr(v) == Stmt("repr", "", v, FALSE)            \* repr(v)
Fail(v) == Stmt("fail", "", v, FALSE)            \* v.fail('boom')
Assign(t) == Stmt("assign", t, "", FALSE)        \* t = 'm'
Try(s) == [s EXCEPT !.guarded = TRUE]            \* try: s / except Exception: pass
TryAll(s) == [s EXCEPT !.guarded = TRUE, !.base = TRUE]   \* try: s / except BaseException: pass
Submit(o) == [Stmt("submit", "", "", FALSE) EXCEPT !.o = o]    \* SUBMIT(o)
Emit == Stmt("print", "", "", FALSE)             \* print('hi')
EmitPair == Stmt("print_pair", "", "", FALSE)    \* print('a', 'b', sep='-', end='')
RaiseOf(etype) == Stmt("raise", etype, "", FALSE)    \* raise etype('x')
Import(t, v) == Stmt("import", t, v, FALSE)      \* import v  (binds the top-level name t)
ImportOs == Import("os", "os")                   \* import os
BadSyntax == Stmt("syntax", "", "", FALSE)       \* x = (  -- source that does not compile

Apply(t, v) == Stmt("call", t, v, FALSE)         \* t = v('ok')

\* The params llm() captures for its operation (helpers.py:212-240).
LlmParams == "{prompt: q, context: None, model: None, max_tokens: 1024, temperature: 0.0}"

\* helpers.py: the helpers that mint an operation, each with the kind it
\* hands to DeferredRegistry.create; llm_query_batched goes through
\* llm_batch (helpers.py:294-300).
AsyncHelpers ==
    {"find_relevant", "summarize", "llm", "llm_batch", "llm_query_batched",
     "map_reduce", "verify_claim", "audit_reasoning"}
SyncHelpers == {"peek", "search", "count_tokens", "truncate", "extract_code_blocks"}

helper_kind(name) ==
    CASE name = "find_relevant" -> EMBED
      [] name = "summarize" -> SUMMARIZE
      [] name = "llm" -> LLM_CALL
      [] name = "llm_batch" -> LLM_BATCH
      [] name = "llm_query_batched" -> LLM_BATCH
      [] name = "map_reduce" -> MAP_REDUCE
      [] name = "verify_claim" -> LLM_CALL
      [] OTHER -> LLM_CALL

\* The params dict each helper builds, named after the helper.
helper_params(name) == "{" \o name \o ": ok}"

\* What a synchronous helper returns for the text 'ok': peek and truncate
\* the text, count_tokens len(text) // 4, search and extract_code_blocks a
\* list.
helper_value(name) ==
    CASE name \in {"peek", "truncate"} -> StrV("ok")
      [] name = "count_tokens" -> IntV(0)
      [] OTHER -> [t |-> "list", s |-> "", n |-> 0]

\* A helper that was called: what the call did and the registry after it.
Helped(out, os, reg) == [out |-> out, ops |-> os, registry |-> reg]

Minted(c) == Helped(Return(OpRef(c.id)), c.ops, c.registry)

\* llm_batch creating its operation whatever the contexts are.
llm_batch_unchecked(reg, os, name, fits) ==
    Minted(create(reg, os, LLM_BATCH, helper_params(name)))

\* llm_batch (helpers.py:243-274): fits tells whether contexts is None or
\* as long as prompts.
llm_batch(reg, os, name, fits) ==
    IF ~fits
    THEN Helped(Raise("ValueError", 0, "contexts must have same length as prompts"), os, reg)
    ELSE Minted(create(reg, os, LLM_BATCH, helper_params(name)))

\* A call of the helper called name (helpers.py:19-413) on the global
\* registry.
helper(name, reg, os, fits) ==
    IF name \in {"llm_batch", "llm_query_batched"} THEN llm_batch(reg, os, name, fits)
    ELSE IF name \in AsyncHelpers
    THEN Minted(create(reg, os, helper_kind(name), helper_params(name)))
    ELSE Helped(Return(helper_value(name)), os, reg)

\* A probe of a value that is not a DeferredOperation.
PlainProbe(p, v) ==
    CASE p = "get" -> Raise("AttributeError", 0, "object has no attribute 'get'")
      [] p = "bool" -> PyBool(v)
      [] p = "len" -> PyLen(v)
      [] p = "iter" -> PyIter(v)
      [] p = "str" -> Return(PyStr(v))
      [] OTHER -> Return(IF v.t = "str" THEN StrV("'" \o v.s \o "'") ELSE PyStr(v))

\* The sandbox handed to Sandbox.execute with no signature set on it.
SandboxState_unset(registration, count, result, capture_output, env) ==
    [signature_registration |-> NoSignature, submit_count |-> count,
     submit_result |-> result, capture_output |-> capture_output, globals |-> env]

\* The sandbox as _execute hands it to Sandbox.execute (main.py:96-104):
\* the signature set from the server's, the submit bundle as the last
\* execute left it, and the request's capture_output.
SandboxState(registration, count, result, capture_output, env) ==
    [signature_registration |-> registration, submit_count |-> count,
     submit_result |-> result, capture_output |-> capture_output, globals |-> env]

\* The evaluation state of a script: the objects, the registry, the
\* namespace, what each statement did so far, the sandbox's submit bundle
\* and signature, and the text captured from sys.stdout.
EvalState(os, reg, ns, tr, sb) ==
    [ops |-> os, registry |-> reg, locals |-> ns, globals |-> sb.globals, trace |-> tr,
     signature_registration |-> sb.signature_registration,
     submit_count |-> sb.submit_count, submit_result |-> sb.submit_result,
     capture_output |-> sb.capture_output, stdout |-> ""]

\* The outcome of one statement: the state after it and what it did.
Step(st, out) == [st |-> st, out |-> out]

\* t = llm('q') (helpers.py:212-240): the created handle is bound to t.
EvalLlm(s, st, c) ==
    Step([st EXCEPT !.ops = c.ops, !.registry = c.registry,
                    !.locals = Bind(st.locals, s.t, OpRef(c.id))],
         Return(NoneV))

\* v.fail('boom') on a handle: DeferredOperation.fail on the object.
EvalFail(st, i, c) == Step([st EXCEPT !.ops = [st.ops EXCEPT ![i] = c.op]], c.out)

\* A probe: "t = v.get()" binds t when get() returns; the others bind nothing.
EvalProbe(s, st, out) ==
    IF s.k = "get" /\ out.kind = "return"
    THEN Step([st EXCEPT !.locals = Bind(st.locals, s.t, out.value)], out)
    ELSE Step(st, out)

\* SUBMIT(o) (sandbox.py:384-422): counts the invocation, records its
\* outcome and raises SubmitSignal.
EvalSubmit(s, st) ==
    Step([st EXCEPT !.submit_count = st.submit_count + 1,
                    !.submit_result = submit_outcome(st.submit_count + 1,
                                                     st.signature_registration,
                                                     serialize_submit_value(s.o))],
         Raise("SubmitSignal", 0, ""))

\* import v: the hook installed as __builtins__["__import__"]
\* (sandbox.py:317) is called with the module name; what it returns is
\* bound to the statement's name, and nothing is bound when it raises.
EvalImport(s, st, out) ==
    IF out.kind = "return"
    THEN Step([st EXCEPT !.locals = Bind(st.locals, s.t, out.value)], Return(NoneV))
    ELSE Step(st, out)

\* t = v('ok') when v names a helper: the helper runs on the global
\* registry and what it returns is bound to t.
EvalApply(s, st, c) ==
    IF c.out.kind = "return"
    THEN Step([st EXCEPT !.ops = c.ops, !.registry = c.registry,
                         !.locals = Bind(st.locals, s.t, c.out.value)],
              Return(NoneV))
    ELSE Step(st, c.out)

\* sep.join(str(arg) for arg in args) (sandbox.py:272).
RECURSIVE join(_, _)
join(sep, args) ==
    IF args = <<>> THEN ""
    ELSE IF Len(args) = 1 THEN args[1]
    ELSE args[1] \o sep \o join(sep, Tail(args))

\* _PrintCollector._call_print (sandbox.py:268-276): the text of one call.
call_print(args, sep, end) == join(sep, args) \o end

\* What print('hi') writes to sys.stdout (sandbox.py:260-268).
Printed == "hi\n"

\* What a print statement of the model writes.
PrintedOf(s) ==
    IF s.k = "print_pair" THEN call_print(<<"a", "b">>, "-", "")
    ELSE call_print(<<"hi">>, " ", "\n")

\* print('hi'): sys.stdout is the capture buffer when capture_output is
\* set (sandbox.py:601-604) and the process's standard output otherwise.
EvalEmit(st) ==
    Step(IF st.capture_output THEN [st EXCEPT !.stdout = st.stdout \o Printed] ELSE st,
         Return(NoneV))

\* print('a', 'b', sep='-', end=''), as EvalEmit.
EvalEmitPair(s, st) ==
    Step(IF st.capture_output THEN [st EXCEPT !.stdout = st.stdout \o PrintedOf(s)] ELSE st,
         Return(NoneV))

\* What the statement wrote to the process's standard output.
Wire(s, st) ==
    IF s.k \in {"print", "print_pair"} /\ ~st.capture_output THEN PrintedOf(s) ELSE ""

\* One statement, unguarded, v being the value its operand names.
EvalValue(s, st, v) ==
    IF s.k = "submit" THEN EvalSubmit(s, st)
    ELSE IF s.k = "print" THEN EvalEmit(st)
    ELSE IF s.k = "print_pair" THEN EvalEmitPair(s, st)
    ELSE IF s.k = "raise" THEN Step(st, Raise(s.t, 0, "x"))
    ELSE IF s.k = "import" THEN EvalImport(s, st, guarded_import(s.v))
    ELSE IF s.k = "llm"
    THEN EvalLlm(s, st, create(st.registry, st.ops, LLM_CALL, LlmParams))
    ELSE IF s.k = "assign"
    THEN Step([st EXCEPT !.locals = Bind(st.locals, s.t, StrV("m"))], Return(NoneV))
    ELSE IF v.t = "unbound"
    THEN Step(st, Raise("NameError", 0, "name is not defined"))
    ELSE IF s.k = "call"
    THEN IF v.t # "function"
         THEN Step(st, Raise("TypeError", 0, "object is not callable"))
         ELSE EvalApply(s, st, helper(s.v, st.registry, st.ops, TRUE))
    ELSE IF s.k = "fail"
    THEN IF v.t # "op"
         THEN Step(st, Raise("AttributeError", 0, "object has no attribute 'fail'"))
         ELSE EvalFail(st, v.n, fail(st.ops[v.n], StrV("boom")))
    ELSE IF v.t = "op"
         THEN EvalProbe(s, st, Probe(s.k, st.ops[v.n], v.n))
         ELSE EvalProbe(s, st, PlainProbe(s.k, v))

\* A name in a script resolves in locals, then in globals (exec(compiled,
\* globals, locals), sandbox.py:609).
Resolve(st, name) ==
    IF Lookup(st.locals, name).t # "unbound" THEN Lookup(st.locals, name)
    ELSE Lookup(st.globals, name)

EvalPlain(s, st) == EvalValue(s, st, Resolve(st, s.v))

\* class PendingOperationError(Exception) (deferred.py:122), and the other
\* errors a statement raises, are caught by "except Exception"; SubmitSignal
\* is a BaseException (sandbox.py:45) and is not, nor are BaseException
\* itself and KeyboardInterrupt.
IsException(etype) == etype \notin {"SubmitSignal", "BaseException", "KeyboardInterrupt"}

\* except Exception catching whatever the statement raises.
Caught_whatever(s, out) == s.guarded /\ out.kind = "raise"

\* try: s / except Exception: pass swallows the Exceptions s raises;
\* except BaseException swallows whatever it raises.
Caught(s, out) == s.guarded /\ out.kind = "raise" /\ (s.base \/ IsException(out.etype))

\* The note of a statement in the trace: its form, the operation its operand
\* named (0: none) and that operation's state before the statement, what
\* the statement did, and whether the script caught what it raised.
Note(s, v, os, out) ==
    [k |-> s.k,
     n |-> IF v.t = "op" THEN v.n ELSE 0,
     was |-> IF v.t = "op" THEN os[v.n].state ELSE "",
     out |-> out,
     caught |-> Caught(s, out),
     count |-> 0, rec |-> NoSubmit, wire |-> ""]

\* The note with the submit bundle as the statement left it and what the
\* statement wrote to standard output.
NoteAfter(note, s, st, after) ==
    [note EXCEPT !.count = after.submit_count, !.rec = after.submit_result,
                 !.wire = Wire(s, st)]

\* What the statement did is noted in the trace; exc is what it lets out to
\* the rest of the script.
Noted(s, st, r) ==
    [st |-> [r.st EXCEPT !.trace = Append(r.st.trace,
                            NoteAfter(Note(s, Resolve(st, s.v), st.ops, r.out),
                                      s, st, r.st))],
     exc |-> IF Caught(s, r.out) THEN Return(NoneV) ELSE r.out]

\* One statement, guarded or not.
EvalStmt(s, st) == Noted(s, st, EvalPlain(s, st))

\* exec(compiled, globals, locals): the statements in order, up to the first
\* one that lets an exception out.
RECURSIVE Exec(_, _, _)
\* exec going on with the next statement although this one raised.
ExecRest_continue(script, k, r) == Exec(script, k + 1, r.st)

ExecRest(script, k, r) ==
    IF r.exc.kind = "raise" THEN r ELSE Exec(script, k + 1, r.st)

Exec(script, k, st) ==
    IF k > Len(script) THEN [st |-> st, exc |-> Return(NoneV)]
    ELSE ExecRest(script, k, EvalStmt(script[k], st))

\* Sandbox.execute (sandbox.py:573-623) once exec has ended with r: a
\* SubmitSignal ends it normally; the result is locals.get("_").
Executed(r) ==
    IF r.exc.kind = "return" \/ r.exc.etype = "SubmitSignal"
    THEN [st |-> r.st, exc |-> Return(NoneV),
          result |-> IF Lookup(r.st.locals, "_").t = "unbound" THEN NoneV
                     ELSE Lookup(r.st.locals, "_")]
    ELSE [st |-> r.st, exc |-> r.exc, result |-> NoneV]

\* Sandbox.compile (sandbox.py:341-364): the source compiles unless one of
\* its statements is malformed.
Compiles(script) == \A k \in DOMAIN script : script[k].k # "syntax"

\* Sandbox.execute (sandbox.py:573-623): reset the submit bundle, compile,
\* then run the script over the session namespace.
execute(script, st) ==
    IF Compiles(script)
    THEN Executed(Exec(script, 1, reset_submit_state(st)))
    ELSE [st |-> reset_submit_state(st),
          exc |-> Raise("CompilationError", 0, "Syntax error"), result |-> NoneV]

----------------------------------------------------------------------------
(* main.py: ReplServer.  A reply is one record shape for every method:     *)
(* kind "result" is a JSON-RPC result, kind "error" a JSON-RPC error with  *)
(* its code and the exception type in data.type; kind "return"/"raise" is  *)
(* the outcome of a direct call of the registry API.                       *)

\* protocol.py:18-27: ErrorCode.
PARSE_ERROR == -32700
INVALID_REQUEST == -32600
METHOD_NOT_FOUND == -32601
INVALID_PARAMS == -32602
EXECUTION_ERROR == -32000

NoError == [text |-> "", n |-> 0]

Reply(method) ==
    [method |-> method, kind |-> "result", code |-> 0, etype |-> "",
     success |-> TRUE, error_type |-> "", error |-> NoError, result |-> NoneV,
     pending_operations |-> <<>>, operations |-> <<>>, count |-> 0,
     submit_result |-> NoSubmit, stdout |-> "", flag |-> FALSE,
     variables |-> NoLocals, variables_count |-> 0,
     signature_registered |-> FALSE]

Request(method) ==
    [method |-> method, script |-> <<>>, operation_id |-> 0, value |-> NoneV, probe |-> "",
     capture_output |-> TRUE, output_fields |-> <<>>, valid |-> TRUE,
     name |-> "", shape |-> "object", extra |-> FALSE]

\* The methods handle_request dispatches.
Methods == {"execute", "get_variable", "set_variable", "resolve_operation",
            "pending_operations", "list_variables", "status", "reset",
            "register_signature", "clear_signature", "shutdown"}

\* The methods whose handler validates params against a schema
\* (main.py:96, 168, 174, 180, 219).
SchemaMethods == {"execute", "get_variable", "set_variable", "resolve_operation",
                  "register_signature"}

\* A JsonRpcError reply with the given code (protocol.py:31-52).
ErrorReply(method, code) ==
    [Reply(method) EXCEPT !.kind = "error", !.code = code, !.success = FALSE]

\* An input line of the server loop: end of file, a blank line, a line that
\* is not JSON, JSON that is no request envelope, or a request with its id
\* (NoneV: a notification).
Line(kind, id, request) == [kind |-> kind, id |-> id, request |-> request]
NoLine == Line("", NoneV, Request(""))
Eof == Line("eof", NoneV, Request(""))
Blank == Line("blank", NoneV, Request(""))
BadJson == Line("bad_json", NoneV, Request(""))
BadEnvelope == Line("bad_envelope", NoneV, Request(""))
RequestLine(id, request) == Line("request", id, request)

\* What reaches standard output: one JSON-RPC response line with its id, or
\* text that a script printed.
RpcLine(id, reply) == [raw |-> "", id |-> id, reply |-> reply]
RawText(text) == [raw |-> text, id |-> NoneV, reply |-> Reply("")]

\* handle_request's "except Exception" (main.py:87-92): JsonRpcError.execution_error
\* with data.type = type(e).__name__.
ExecutionErrorReply(method, out) ==
    [Reply(method) EXCEPT !.kind = "error", !.code = EXECUTION_ERROR,
                          !.etype = out.etype, !.success = FALSE,
                          !.error = [text |-> out.value.s, n |-> out.id]]

\* The reply of a direct call: what it returned or raised.
CallReply(method, out) ==
    [Reply(method) EXCEPT !.kind = out.kind, !.etype = out.etype,
                          !.success = (out.kind = "return"),
                          !.result = IF out.kind = "return" THEN out.value ELSE NoneV,
                          !.error = [text |-> IF out.kind = "raise" THEN out.value.s ELSE "",
                                     n |-> out.id]]

\* The response taking every return of Sandbox.execute for a success.
ExecuteOutcome_lenient(base, r) ==
    IF r.exc.kind = "return"
    THEN [base EXCEPT !.success = TRUE, !.result = serialize_result(r.result), !.stdout = r.st.stdout,
                      !.submit_result = r.st.submit_result]
    ELSE [base EXCEPT !.success = FALSE, !.error_type = r.exc.etype,
                      !.error = [text |-> r.exc.value.s, n |-> r.exc.id]]

\* ReplServer._execute (main.py:94-164), the ExecuteResponse built from what
\* Sandbox.execute returned or raised and from the registry afterwards.
ExecuteOutcome(base, r) ==
    IF r.exc.kind = "return" /\ r.st.submit_result.status = "validation_error"
    THEN [base EXCEPT !.success = FALSE, !.result = serialize_result(r.result), !.stdout = r.st.stdout,
                      !.submit_result = r.st.submit_result,
                      !.error_type = "SubmitValidationError",
                      !.error = [text |-> submit_error_message(r.st.submit_result), n |-> 0]]
    ELSE IF r.exc.kind = "return"
    THEN [base EXCEPT !.success = TRUE, !.result = serialize_result(r.result), !.stdout = r.st.stdout,
                      !.submit_result = r.st.submit_result]
    ELSE IF r.exc.etype = "PendingOperationError"
    THEN [base EXCEPT !.success = FALSE, !.error_type = "PendingOperationError",
                      !.error = [text |-> "Pending operation: ", n |-> r.exc.id]]
    ELSE [base EXCEPT !.success = FALSE, !.error_type = r.exc.etype,
                      !.error = [text |-> r.exc.value.s, n |-> 0]]

\* The response listing only pending_ops, the id the signal carried
\* (main.py:100, 117), instead of the registry's pending ids.
ExecuteResponse_probed_only(r) ==
    ExecuteOutcome([Reply("execute") EXCEPT
                        !.pending_operations =
                            IF r.exc.kind = "raise" /\ r.exc.etype = "PendingOperationError"
                            THEN <<r.exc.id>> ELSE <<>>], r)

ExecuteResponse(r) ==
    ExecuteOutcome([Reply("execute") EXCEPT
                        !.pending_operations = pending_ids(r.st.registry, r.st.ops)], r)

\* ReplServer._pending_operations (main.py:184-195).
OperationEntry(os, i) ==
    [id |-> i, operation_type |-> os[i].operation_type, params |-> os[i].params]

Entries(os, pend) == [k \in DOMAIN pend |-> OperationEntry(os, pend[k])]

PendingOperationsResponse(reg, os) == Entries(os, pending_operations(reg, os))

\* ReplServer._status (main.py:201-208): the pending count.
StatusPending(reg, os) == Len(pending_ids(reg, os))

----------------------------------------------------------------------------
(* Inputs.                                                                 *)

\* Payloads a host resolves an operation with, and errors it fails one with.
Results == {NoneV, StrV("ok")}
Errors == {StrV(""), StrV("boom")}

\* Arguments of a direct DeferredRegistry.create (test_repl.py:36-37, 68-71).
CreateArgs == {[operation_type |-> LLM_CALL, params |-> "{prompt: test}"],
               [operation_type |-> SUMMARIZE, params |-> "None"]}

\* Probing statements of a handle.
ProbeStmts == {Get("x", "h"), Bool("h"), LenOf("h"), Iter("h"), Str("h"), Repr("h")}

\* The scripts a host sends: one statement, or two in sequence.
Scripts ==
    {<<s>> : s \in ProbeStmts \cup {Llm("h"), Fail("h"), Assign("x"), LenOf("x"),
                                    Try(Get("x", "h")), Try(Bool("h"))}}
    \cup {<<Llm("h"), s>> : s \in ProbeStmts \cup {Llm("h"), Fail("h")}}
    \cup {<<s, Assign("x")>> : s \in ProbeStmts \cup {Try(Get("x", "h")), Try(Bool("h")),
                                                      Try(Iter("h"))}}

\* Field types and signatures a host registers.
ScalarTypes == {"string", "integer", "float", "boolean"}
FieldTypes ==
    {FieldType(tag, {}) : tag \in ScalarTypes \cup {"custom", "mystery"}}
    \cup {FieldType("enum", {"test"})}
Signatures ==
    {<<>>}
    \cup {<<FieldSpec("answer", ft, r)>> : ft \in FieldTypes, r \in BOOLEAN}
    \cup {<<FieldSpec("answer", FieldType("string", {}), r1),
            FieldSpec("score", FieldType(tag, {}), r2)>> :
                tag \in {"integer", "float"}, r1 \in BOOLEAN, r2 \in BOOLEAN}
    \cup {<<FieldSpec("score", FieldType(tag, {}), r2),
            FieldSpec("answer", FieldType("string", {}), r1)>> :
                tag \in {"integer", "float"}, r1 \in BOOLEAN, r2 \in BOOLEAN}

\* What scripts submit: dicts over answer and score, and a bare string.
AnswerValues == {Absent, StrV("test"), StrV("other"), IntV(42), FloatV(1), BoolV(TRUE), NoneV}
ScoreValues == {Absent, IntV(42), FloatV(1), BoolV(TRUE), StrV("test")}
SubmitOutputs ==
    {DictOf([n \in OutNames |-> IF n = "answer" THEN a ELSE s]) :
        a \in AnswerValues, s \in ScoreValues}
    \cup {PlainOf(StrV("test"))}
FewOutputs ==
    {DictOf([n \in OutNames |-> IF n = "answer" THEN a ELSE Absent]) :
        a \in {StrV("test"), IntV(42)}}

\* n SUBMIT calls, each inside try / except BaseException.
RECURSIVE GuardedSubmits(_)
GuardedSubmits(n) ==
    IF n = 0 THEN {<<>>}
    ELSE {<<TryAll(Submit(o))>> \o rest : o \in FewOutputs, rest \in GuardedSubmits(n - 1)}

\* The scripts of SUBMIT: one call; up to MaxSubmits calls of which all but
\* the last are guarded; a call followed by another statement; no call.
SubmitScripts ==
    {<<Submit(o)>> : o \in SubmitOutputs}
    \cup UNION {{pre \o <<Submit(o)>> : pre \in GuardedSubmits(n), o \in FewOutputs} :
                  n \in 1..(MaxSubmits - 1)}
    \cup {<<g, s>> : g \in {Submit(o) : o \in FewOutputs}
                          \cup {Try(Submit(o)) : o \in FewOutputs}
                          \cup {TryAll(Submit(o)) : o \in FewOutputs},
                     s \in {Assign("x"), LenOf("x")}}
    \cup {<<Assign("x")>>, <<LenOf("x")>>}

\* The scripts and the request lines a host writes to the server loop.
LoopScripts ==
    {<<Assign("x")>>, <<Emit>>, <<Emit, LenOf("x")>>, <<Llm("h")>>, <<Get("x", "h")>>,
     <<Submit(DictOf([n \in OutNames |-> IF n = "answer" THEN StrV("test") ELSE Absent]))>>,
     <<BadSyntax>>, <<ImportOs>>, <<RaiseOf("ValueError")>>, <<RaiseOf("BaseException")>>,
     <<RaiseOf("KeyboardInterrupt")>>}
LoopRequests ==
    {[Request("execute") EXCEPT !.script = s, !.capture_output = c] :
        s \in LoopScripts, c \in BOOLEAN}
    \cup {[Request("execute") EXCEPT !.valid = FALSE],
          [Request("resolve_operation") EXCEPT !.operation_id = 1, !.value = StrV("ok")],
          Request("pending_operations"), Request("status"), Request("reset"),
          [Request("register_signature") EXCEPT
              !.output_fields = <<FieldSpec("answer", FieldType("string", {}), TRUE)>>],
          Request("clear_signature"), Request("shutdown"), Request("nope"),
          [Request("set_variable") EXCEPT !.name = "x", !.value = IntV(1)]}
RequestIds == {NoneV, IntV(7)}
RequestLines == {RequestLine(id, r) : id \in RequestIds, r \in LoopRequests}

\* The scripts, names and requests of a session that binds and reads
\* variables: each method with well-formed params, with a required field
\* missing, with an unknown field, and with list-shaped params.
SessionScripts ==
    {<<Assign("x")>>, <<Llm("h")>>, <<LenOf("x")>>, <<Assign("x"), LenOf("x")>>,
     <<Emit, EmitPair>>, <<EmitPair, LenOf("x")>>, <<Emit, Get("x", "h")>>}
GetNames == {"x", "h", "_", "peek"}
SetNames == {"x", "_", "_y"}
SetValues == {IntV(1)}
WellFormed ==
    {[Request("execute") EXCEPT !.script = s] : s \in SessionScripts}
    \cup {[Request("get_variable") EXCEPT !.name = n] : n \in GetNames}
    \cup {[Request("set_variable") EXCEPT !.name = n, !.value = v] :
              n \in SetNames, v \in SetValues}
    \cup {[Request("resolve_operation") EXCEPT !.operation_id = 1, !.value = StrV("ok")],
          [Request("register_signature") EXCEPT
              !.output_fields = <<FieldSpec("answer", FieldType("string", {}), TRUE)>>],
          Request("pending_operations"), Request("list_variables"), Request("status"),
          Request("reset"), Request("clear_signature")}
Sampled ==
    {r \in WellFormed : r.method # "execute" \/ r.script = <<Assign("x")>>}
MissingField == {[r EXCEPT !.valid = FALSE] : r \in {q \in Sampled : q.method \in SchemaMethods}}
UnknownField ==
    {[r EXCEPT !.extra = TRUE] :
        r \in {q \in Sampled : q.method \in {"execute", "set_variable", "status"} /\ q.name \in {"", "x"}}}
ListShaped ==
    {[r EXCEPT !.shape = sh] :
        r \in {q \in Sampled : q.method \in {"execute", "get_variable", "status", "reset"}
                                /\ q.name \in {"", "x"}},
        sh \in {"list", "empty_list"}}
UnknownMethod == {Request("nope")}
SessionRequests == WellFormed \cup MissingField \cup UnknownField \cup ListShaped \cup UnknownMethod
SessionLines == {RequestLine(IntV(7), r) : r \in SessionRequests}

\* The scripts and requests of a session that imports modules, calls a
\* helper and binds names of the environment with set_variable.
SandboxScripts ==
    {<<Import("math", "math")>>, <<ImportOs>>, <<Import("collections", "collections.abc")>>,
     <<Try(ImportOs), Assign("x")>>, <<Assign("x"), ImportOs>>,
     <<Apply("x", "peek")>>, <<Str("DeferredOperation")>>}
SandboxRequests ==
    {[Request("execute") EXCEPT !.script = s] : s \in SandboxScripts}
    \cup {[Request("set_variable") EXCEPT !.name = n, !.value = IntV(1)] :
              n \in {"x", "peek", "DeferredOperation"}}
    \cup {[Request("get_variable") EXCEPT !.name = n] : n \in {"x", "peek", "math"}}
    \cup {Request("list_variables"), Request("reset")}
SandboxLines == {RequestLine(IntV(7), r) : r \in SandboxRequests}

----------------------------------------------------------------------------
(* The state after construction: ReplServer() with an empty global         *)
(* registry and an empty session namespace.                                *)

Init ==
    /\ ops = <<>>
    /\ registry = <<>>
    /\ locals = NoLocals
    /\ globals = setup_environment(NoLocals)
    /\ running = TRUE
    /\ req = Request("")
    /\ resp = Reply("")
    /\ trace = <<>>
    /\ signature_registration = NoSignature
    /\ submit_count = 0
    /\ submit_result = NoSubmit
    /\ line = NoLine
    /\ written = <<>>
    /\ loop = "reading"

\* What the script raised is no Exception: no except clause of _execute
\* (main.py:115-147) nor of handle_request (main.py:80-92) catches it.
Escapes(exc) == exc.kind = "raise" /\ ~IsException(exc.etype)

\* handle_request, method "execute" (main.py:50-51, 94-164), r being what
\* Sandbox.execute did.
Executing(script, r) ==
    /\ running
    /\ Len(r.st.ops) <= MaxOps
    /\ ops' = r.st.ops
    /\ registry' = r.st.registry
    /\ locals' = r.st.locals
    /\ globals' = r.st.globals
    /\ trace' = r.st.trace
    /\ req' = [Request("execute") EXCEPT !.script = script,
                                         !.capture_output = r.st.capture_output]
    /\ resp' = IF Escapes(r.exc) THEN CallReply("execute", r.exc) ELSE ExecuteResponse(r)
    /\ submit_count' = r.st.submit_count
    /\ submit_result' = IF r.exc.kind = "return" THEN NoSubmit ELSE r.st.submit_result
    /\ UNCHANGED <<running, signature_registration>>

Execute(script, capture_output) ==
    Executing(script,
              execute(script,
                      EvalState(ops, registry, locals, <<>>,
                                SandboxState(signature_registration, submit_count,
                                             submit_result, capture_output, globals))))

\* handle_request, method "resolve_operation" (main.py:56-57, 178-182), r
\* being what DeferredRegistry.resolve did.
Resolving(i, result, r) ==
    /\ running
    /\ ops' = r.ops
    /\ req' = [Request("resolve_operation") EXCEPT !.operation_id = i, !.value = result]
    /\ resp' = IF r.out.kind = "raise"
               THEN ExecutionErrorReply("resolve_operation", r.out)
               ELSE Reply("resolve_operation")
    /\ trace' = <<>>
    /\ UNCHANGED <<registry, locals, globals, running,
                 signature_registration, submit_count, submit_result>>

ResolveOperation(i, result) == Resolving(i, result, registry_resolve(registry, ops, i, result))

\* handle_request, method "pending_operations" (main.py:58-59, 184-195).
PendingOperations ==
    /\ running
    /\ req' = Request("pending_operations")
    /\ resp' = [Reply("pending_operations") EXCEPT
                    !.operations = PendingOperationsResponse(registry, ops)]
    /\ trace' = <<>>
    /\ UNCHANGED <<ops, registry, locals, globals, running,
                 signature_registration, submit_count, submit_result>>

\* handle_request, method "status" (main.py:62-63, 201-208).
Status ==
    /\ running
    /\ req' = Request("status")
    /\ resp' = [Reply("status") EXCEPT
                    !.count = StatusPending(registry, ops),
                    !.variables_count = variables_count(list_variables(locals, globals)),
                    !.signature_registered = signature_registration.registered]
    /\ trace' = <<>>
    /\ UNCHANGED <<ops, registry, locals, globals, running,
                 signature_registration, submit_count, submit_result>>

\* reset keeping the sandbox it had.
Reset_keeping ==
    /\ running
    /\ registry' = <<>>
    /\ req' = Request("reset")
    /\ resp' = Reply("reset")
    /\ trace' = <<>>
    /\ signature_registration' = NoSignature
    /\ UNCHANGED <<ops, running, locals, globals, submit_count, submit_result>>

\* handle_request, method "reset" (main.py:64-65, 210-215): a fresh Sandbox
\* and a fresh global registry.  The old objects exist no longer for the
\* session; the model keeps them in ops, unreachable.
Reset ==
    /\ running
    /\ registry' = <<>>
    /\ locals' = NoLocals
    /\ globals' = setup_environment(NoLocals)
    /\ req' = Request("reset")
    /\ resp' = Reply("reset")
    /\ trace' = <<>>
    /\ signature_registration' = NoSignature
    /\ submit_count' = 0
    /\ submit_result' = NoSubmit
    /\ UNCHANGED <<ops, running>>

\* register_signature never reporting a replacement.
RegisterSignature_fresh(output_fields) ==
    /\ running
    /\ signature_registration' = Signature(output_fields)
    /\ req' = [Request("register_signature") EXCEPT !.output_fields = output_fields]
    /\ resp' = Reply("register_signature")
    /\ trace' = <<>>
    /\ UNCHANGED <<ops, registry, locals, globals, running, submit_count, submit_result>>

\* handle_request, method "register_signature" (main.py:66-67, 217-223).
RegisterSignature(output_fields) ==
    /\ running
    /\ signature_registration' = Signature(output_fields)
    /\ req' = [Request("register_signature") EXCEPT !.output_fields = output_fields]
    /\ resp' = [Reply("register_signature") EXCEPT !.flag = signature_registration.registered]
    /\ trace' = <<>>
    /\ UNCHANGED <<ops, registry, locals, globals, running, submit_count, submit_result>>

\* clear_signature answering without clearing.
ClearSignature_noop ==
    /\ running
    /\ req' = Request("clear_signature")
    /\ resp' = [Reply("clear_signature") EXCEPT !.flag = signature_registration.registered]
    /\ trace' = <<>>
    /\ UNCHANGED <<ops, registry, locals, globals, running, submit_count, submit_result,
                   signature_registration>>

\* handle_request, method "clear_signature" (main.py:68-69, 225-230).
ClearSignature ==
    /\ running
    /\ signature_registration' = NoSignature
    /\ req' = Request("clear_signature")
    /\ resp' = [Reply("clear_signature") EXCEPT !.flag = signature_registration.registered]
    /\ trace' = <<>>
    /\ UNCHANGED <<ops, registry, locals, globals, running, submit_count, submit_result>>

\* handle_request, method "shutdown" (main.py:70-72).
Shutdown ==
    /\ running
    /\ running' = FALSE
    /\ req' = Request("shutdown")
    /\ resp' = [Reply("shutdown") EXCEPT !.flag = TRUE]
    /\ trace' = <<>>
    /\ UNCHANGED <<ops, registry, locals, globals, signature_registration, submit_count, submit_result>>

\* handle_request, a method it does not know (main.py:73-76).
MethodNotFound(method) ==
    /\ running
    /\ req' = Request(method)
    /\ resp' = ErrorReply(method, METHOD_NOT_FOUND)
    /\ trace' = <<>>
    /\ UNCHANGED <<ops, registry, locals, globals, running,
                   signature_registration, submit_count, submit_result>>

\* handle_request, a request whose params do not validate against the
\* method's schema (main.py:80-86; protocol.py:106-163): the pydantic
\* ValidationError is raised before the handler does anything.
InvalidParams(r) ==
    /\ running
    /\ req' = r
    /\ resp' = ErrorReply(r.method, INVALID_PARAMS)
    /\ trace' = <<>>
    /\ UNCHANGED <<ops, registry, locals, globals, running,
                   signature_registration, submit_count, submit_result>>

\* handle_request, a schema method whose params is a non-empty list:
\* Schema(**params) raises TypeError, which "except Exception" turns into
\* an execution error (main.py:47, 87-92).
ListParams(r) ==
    /\ running
    /\ req' = r
    /\ resp' = ExecutionErrorReply(r.method, Raise("TypeError", 0, "argument after ** must be a mapping, not list"))
    /\ trace' = <<>>
    /\ UNCHANGED <<ops, registry, locals, globals, running,
                   signature_registration, submit_count, submit_result>>

\* handle_request, method "get_variable" (main.py:52-53, 166-170), out
\* being what Sandbox.get_variable did.
GettingVariable(name, out) ==
    /\ running
    /\ req' = [Request("get_variable") EXCEPT !.name = name]
    /\ resp' = IF out.kind = "raise" THEN ExecutionErrorReply("get_variable", out)
               ELSE [Reply("get_variable") EXCEPT !.result = serialize_result(out.value)]
    /\ trace' = <<>>
    /\ UNCHANGED <<ops, registry, locals, globals, running,
                   signature_registration, submit_count, submit_result>>

GetVariable(name) == GettingVariable(name, get_variable(name, locals, globals))

\* handle_request, method "set_variable" (main.py:54-55, 172-176), r being
\* what Sandbox.set_variable did.
SettingVariable(name, value, r) ==
    /\ running
    /\ locals' = r.locals
    /\ globals' = r.globals
    /\ req' = [Request("set_variable") EXCEPT !.name = name, !.value = value]
    /\ resp' = IF r.out.kind = "raise" THEN ExecutionErrorReply("set_variable", r.out)
               ELSE Reply("set_variable")
    /\ trace' = <<>>
    /\ UNCHANGED <<ops, registry, running,
                   signature_registration, submit_count, submit_result>>

SetVariable(name, value) ==
    SettingVariable(name, value, set_variable(name, value, locals, globals))

\* handle_request, method "list_variables" (main.py:60-61, 197-199).
ListVariables ==
    /\ running
    /\ req' = Request("list_variables")
    /\ resp' = [Reply("list_variables") EXCEPT !.variables = list_variables(locals, globals)]
    /\ trace' = <<>>
    /\ UNCHANGED <<ops, registry, locals, globals, running,
                   signature_registration, submit_count, submit_result>>

\* Sandbox.clear (sandbox.py:682-686), called on the session's sandbox:
\* locals are emptied, the submit bundle is reset and the environment is
\* set up again; what set_variable put in globals stays.
Clear ==
    /\ running
    /\ locals' = NoLocals
    /\ globals' = setup_environment(globals)
    /\ submit_count' = 0
    /\ submit_result' = NoSubmit
    /\ req' = Request("clear")
    /\ resp' = CallReply("clear", Return(NoneV))
    /\ trace' = <<>>
    /\ UNCHANGED <<ops, registry, running, signature_registration>>

\* The schema refusing a field it does not know.
ParamsOutcome_forbid(r) ==
    IF r.method \notin SchemaMethods THEN "ok"
    ELSE IF r.shape = "list" THEN "type_error"
    ELSE IF r.shape = "empty_list" \/ ~r.valid \/ r.extra THEN "invalid"
    ELSE "ok"

\* params = request.params or {} (main.py:47) handed to Schema(**params):
\* a non-empty list is no mapping; an empty list or None counts as {},
\* which lacks every required field; an object validates unless a required
\* field is missing or mistyped.  Unknown fields are ignored by the schema.
ParamsOutcome(r) ==
    IF r.method \notin SchemaMethods THEN "ok"
    ELSE IF r.shape = "list" THEN "type_error"
    ELSE IF r.shape = "empty_list" \/ ~r.valid THEN "invalid"
    ELSE "ok"

\* ReplServer.handle_request (main.py:44-92): dispatch on the method.
handle_request(r) ==
    \/ r.method \in Methods /\ ParamsOutcome(r) = "invalid" /\ InvalidParams(r)
    \/ r.method \in Methods /\ ParamsOutcome(r) = "type_error" /\ ListParams(r)
    \/ r.method = "execute" /\ ParamsOutcome(r) = "ok" /\ Execute(r.script, r.capture_output)
    \/ r.method = "get_variable" /\ ParamsOutcome(r) = "ok" /\ GetVariable(r.name)
    \/ r.method = "set_variable" /\ ParamsOutcome(r) = "ok" /\ SetVariable(r.name, r.value)
    \/ r.method = "resolve_operation" /\ ParamsOutcome(r) = "ok"
          /\ ResolveOperation(r.operation_id, r.value)
    \/ r.method = "pending_operations" /\ PendingOperations
    \/ r.method = "list_variables" /\ ListVariables
    \/ r.method = "status" /\ Status
    \/ r.method = "reset" /\ Reset
    \/ r.method = "register_signature" /\ ParamsOutcome(r) = "ok"
          /\ RegisterSignature(r.output_fields)
    \/ r.method = "clear_signature" /\ ClearSignature
    \/ r.method = "shutdown" /\ Shutdown
    \/ r.method \notin Methods /\ MethodNotFound(r.method)

(* main.py: ReplServer.run, the loop over the lines of standard input.  A  *)
(* step is one iteration: a line is read and handled, and the loop         *)
(* condition is tested again.                                              *)

\* The session: everything but the loop's own state.
session == <<ops, registry, locals, globals, running, req, resp, trace,
             signature_registration, submit_count, submit_result>>

\* The loop test going on whatever running is.
AfterIteration_forever(run) == "reading"

\* "while self.running" (main.py:273) after an iteration.
AfterIteration(run) == IF run THEN "reading" ELSE "exited"

\* What the statements of the script wrote to the process's standard
\* output, in order.
RawLines(notes) == [k \in DOMAIN notes |-> RawText(notes[k].wire)]
Leaked(tr) == RawLines(SelectSeq(tr, LAMBDA e : e.wire # ""))

\* main.py:306-309: the response line, unless the request is a
\* notification; none when handle_request raised.
ResponseLines(l, reply) ==
    IF reply.kind = "raise" \/ l.id = NoneV THEN <<>> ELSE <<RpcLine(l.id, reply)>>

\* What an exception out of handle_request does to the loop (main.py:311-326):
\* KeyboardInterrupt breaks it, an Exception is answered, anything else
\* leaves run() and ends the process.
AfterRaise(etype) == IF etype = "KeyboardInterrupt" THEN "exited" ELSE "crashed"

\* The iteration once handle_request has run on the request of line l.
Served(l) ==
    /\ line' = l
    /\ written' = Leaked(trace') \o ResponseLines(l, resp')
    /\ loop' = IF resp'.kind = "raise" THEN AfterRaise(resp'.etype)
               ELSE AfterIteration(running')

\* An iteration that answers a notification without handling it.
Unhandled(r) ==
    /\ req' = r
    /\ resp' = Reply(r.method)
    /\ trace' = <<>>
    /\ UNCHANGED <<ops, registry, locals, globals, running,
                   signature_registration, submit_count, submit_result>>

Serve_skipping(l) ==
    /\ loop = "reading"
    /\ IF l.id = NoneV THEN Unhandled(l.request) ELSE handle_request(l.request)
    /\ Served(l)

\* An iteration that reads a request (main.py:284-309).
Serve(l) == loop = "reading" /\ handle_request(l.request) /\ Served(l)

\* An iteration that reads end of file (main.py:275-278).
ReadEof ==
    /\ loop = "reading"
    /\ line' = Eof
    /\ written' = <<>>
    /\ loop' = "exited"
    /\ UNCHANGED session

\* An iteration that reads a blank line (main.py:280-282).
ReadBlank ==
    /\ loop = "reading"
    /\ line' = Blank
    /\ written' = <<>>
    /\ loop' = AfterIteration(running)
    /\ UNCHANGED session

\* JsonRpcError.parse_error / invalid_request replies, with no id.
ParseErrorReply == ErrorReply("", PARSE_ERROR)
InvalidRequestReply_parse == ErrorReply("", PARSE_ERROR)
InvalidRequestReply == ErrorReply("", INVALID_REQUEST)

\* An iteration that reads a line that is not JSON (main.py:288-294).
ReadBadJson ==
    /\ loop = "reading"
    /\ line' = BadJson
    /\ written' = <<RpcLine(NoneV, ParseErrorReply)>>
    /\ loop' = AfterIteration(running)
    /\ UNCHANGED session

\* An iteration that reads JSON that is no request (main.py:295-301).
ReadBadEnvelope ==
    /\ loop = "reading"
    /\ line' = BadEnvelope
    /\ written' = <<RpcLine(NoneV, InvalidRequestReply)>>
    /\ loop' = AfterIteration(running)
    /\ UNCHANGED session

(* Direct calls of the registry API, as an embedding host or a test makes  *)
(* them on the global registry and on the handles it holds.                *)

\* A direct call that changes at most the objects: its request, its
\* outcome and the objects afterwards.
DirectCall(method, i, value, out, os) ==
    /\ ops' = os
    /\ req' = [Request(method) EXCEPT !.operation_id = i, !.value = value]
    /\ resp' = CallReply(method, out)
    /\ trace' = <<>>
    /\ UNCHANGED <<registry, locals, globals, running,
                 signature_registration, submit_count, submit_result>>

\* DeferredRegistry.create.
Creating(c) ==
    /\ Len(ops) < MaxOps
    /\ ops' = c.ops
    /\ registry' = c.registry
    /\ req' = Request("DeferredRegistry.create")
    /\ resp' = CallReply("DeferredRegistry.create", Return(OpRef(c.id)))
    /\ trace' = <<>>
    /\ UNCHANGED <<locals, globals, running,
                 signature_registration, submit_count, submit_result>>

RegistryCreate(a) == Creating(create(registry, ops, a.operation_type, a.params))

\* DeferredRegistry.resolve.
RegistryResolved(i, result, r) == DirectCall("DeferredRegistry.resolve", i, result, r.out, r.ops)

RegistryResolve(i, result) == RegistryResolved(i, result, registry_resolve(registry, ops, i, result))

\* DeferredRegistry.fail.
RegistryFailed(i, error, r) == DirectCall("DeferredRegistry.fail", i, error, r.out, r.ops)

RegistryFail(i, error) == RegistryFailed(i, error, registry_fail(registry, ops, i, error))

\* DeferredOperation.resolve on a handle the caller holds.
OpResolved(i, result, c) ==
    DirectCall("DeferredOperation.resolve", i, result, c.out, [ops EXCEPT ![i] = c.op])

OpResolve(i, result) == i \in Created /\ OpResolved(i, result, resolve(ops[i], result))

\* DeferredOperation.fail on a handle the caller holds.
OpFailed(i, error, c) ==
    DirectCall("DeferredOperation.fail", i, error, c.out, [ops EXCEPT ![i] = c.op])

OpFail(i, error) == i \in Created /\ OpFailed(i, error, fail(ops[i], error))

\* get(), bool(), len(), iter(), str() or repr() of a handle the caller holds.
OpProbe(i, p) ==
    /\ i \in Created
    /\ req' = [Request("DeferredOperation.probe") EXCEPT !.operation_id = i, !.probe = p]
    /\ resp' = CallReply("DeferredOperation.probe", Probe(p, ops[i], i))
    /\ trace' = <<>>
    /\ UNCHANGED <<ops, registry, locals, globals, running,
                 signature_registration, submit_count, submit_result>>

\* A helper called directly, as a host embedding the package calls it; c is
\* what the helper did.
Helping(name, fits, c) ==
    /\ Len(c.ops) <= MaxOps
    /\ ops' = c.ops
    /\ registry' = c.registry
    /\ req' = [Request("helper") EXCEPT !.name = name, !.valid = fits]
    /\ resp' = CallReply("helper", c.out)
    /\ trace' = <<>>
    /\ UNCHANGED <<locals, globals, running,
                   signature_registration, submit_count, submit_result>>

HelperCall(name, fits) == Helping(name, fits, helper(name, registry, ops, fits))

\* DeferredRegistry.clear_resolved (deferred.py:192-201).
Clearing(gone) ==
    /\ registry' = DictRemove(registry, gone)
    /\ req' = Request("DeferredRegistry.clear_resolved")
    /\ resp' = CallReply("DeferredRegistry.clear_resolved", Return(IntV(Cardinality(gone))))
    /\ trace' = <<>>
    /\ UNCHANGED <<ops, locals, globals, running,
                 signature_registration, submit_count, submit_result>>

ClearResolved == Clearing(to_remove(registry, ops))

\* reset_registry (deferred.py:220-223): a fresh global registry.
ResetRegistry ==
    /\ registry' = <<>>
    /\ req' = Request("reset_registry")
    /\ resp' = CallReply("reset_registry", Return(NoneV))
    /\ trace' = <<>>
    /\ UNCHANGED <<ops, locals, globals, running,
                 signature_registration, submit_count, submit_result>>

----------------------------------------------------------------------------
(* Two specifications over the same state.  Spec is the server process:    *)
(* the registry changes only through requests and through the scripts      *)
(* they run.  RegistrySpec is the deferred module used as a library: its   *)
(* API called directly on the global registry, next to the requests that   *)
(* read or resolve its operations.                                         *)

\* handle_request called directly (as test_repl.py does), no server loop.
Direct == UNCHANGED <<line, written, loop>>

Next ==
    \/ \E script \in Scripts : Execute(script, TRUE) /\ Direct
    \/ \E i \in Ids, result \in Results : ResolveOperation(i, result) /\ Direct
    \/ PendingOperations /\ Direct
    \/ Status /\ Direct
    \/ Reset /\ Direct

Spec == Init /\ [][Next]_vars

NextRegistry ==
    \/ \E a \in CreateArgs : RegistryCreate(a) /\ Direct
    \/ \E i \in Ids, result \in Results : RegistryResolve(i, result) /\ Direct
    \/ \E i \in Ids, error \in Errors : RegistryFail(i, error) /\ Direct
    \/ \E i \in Ids, result \in Results : OpResolve(i, result) /\ Direct
    \/ \E i \in Ids, error \in Errors : OpFail(i, error) /\ Direct
    \/ \E i \in Ids, p \in Probes : OpProbe(i, p) /\ Direct
    \/ ClearResolved /\ Direct
    \/ ResetRegistry /\ Direct
    \/ \E i \in Ids, result \in Results : ResolveOperation(i, result) /\ Direct
    \/ PendingOperations /\ Direct
    \/ Status /\ Direct

RegistrySpec == Init /\ [][NextRegistry]_vars

\* SubmitSpec is the server running scripts that call SUBMIT, next to the
\* requests that register and clear the signature.
NextSubmit ==
    \/ \E script \in SubmitScripts : Execute(script, TRUE) /\ Direct
    \/ \E output_fields \in Signatures : RegisterSignature(output_fields) /\ Direct
    \/ ClearSignature /\ Direct
    \/ Reset /\ Direct

SubmitSpec == Init /\ [][NextSubmit]_vars

\* LoopSpec is the server process reading its input line by line.
NextLoop ==
    \/ \E l \in RequestLines : Serve(l)
    \/ ReadEof
    \/ ReadBlank
    \/ ReadBadJson
    \/ ReadBadEnvelope

LoopSpec == Init /\ [][NextLoop]_vars

\* SessionSpec is the server process handling the variable, status,
\* signature and reset requests of a session, next to Sandbox.clear called
\* on the session's sandbox.
NextSession ==
    \/ \E l \in SessionLines : Serve(l)
    \/ Clear /\ Direct

SessionSpec == Init /\ [][NextSession]_vars

\* SandboxSpec is the server process running scripts that import modules
\* and call helpers, while the host binds names of the environment with
\* set_variable and clears the sandbox.
NextSandbox ==
    \/ \E l \in SandboxLines : Serve(l)
    \/ Clear /\ Direct

SandboxSpec == Init /\ [][NextSandbox]_vars

\* HelperSpec is the helpers module used as a library: every helper called
\* on the global registry, with contexts that fit the prompts and with
\* contexts that do not, next to the host resolving what they created.
NextHelper ==
    \/ \E name \in AsyncHelpers \cup SyncHelpers, fits \in BOOLEAN :
            HelperCall(name, fits) /\ Direct
    \/ \E i \in Ids : RegistryResolve(i, StrV("ok")) /\ Direct

HelperSpec == Init /\ [][NextHelper]_vars

----------------------------------------------------------------------------
(* Claims.                                                                 *)

\* The calls that resolve or fail an operation, by every route.
ResolveCalls == {"DeferredOperation.resolve", "DeferredRegistry.resolve", "resolve_operation"}
FailCalls == {"DeferredOperation.fail", "DeferredRegistry.fail"}

\* The call handled by this step did not succeed: it raised, or was answered
\* with a JSON-RPC error.
Refused(r) == r.kind \in {"raise", "error"}

\* The operation the last call named, when it is one that exists.
Target == ops[req.operation_id]
Probed(p) ==
    /\ req.method = "DeferredOperation.probe"
    /\ req.probe = p
    /\ req.operation_id \in Created

\* C1: an operation's state changes only pending -> resolved (by a resolve,
\* which stores the given result) or pending -> failed (by a fail, which
\* stores the given error); a resolve or fail of an operation that is already
\* resolved or failed, by any route, is refused and leaves the operation as
\* it was.
C1_Step ==
    \A i \in DOMAIN ops :
        /\ ops'[i] # ops[i] =>
              /\ ops[i].state = PENDING
              /\ req'.operation_id = i
              /\ \/ /\ req'.method \in ResolveCalls
                    /\ ops'[i] = [ops[i] EXCEPT !.state = RESOLVED, !.result = req'.value]
                 \/ /\ req'.method \in FailCalls
                    /\ ops'[i] = [ops[i] EXCEPT !.state = FAILED, !.error = req'.value]
        /\ (/\ ops[i].state # PENDING
            /\ req'.operation_id = i
            /\ req'.method \in ResolveCalls \cup FailCalls) =>
              /\ Refused(resp')
              /\ ops'[i] = ops[i]

C1_MonotoneState == [][C1_Step]_vars

\* C1 witness: a resolve_operation request for an operation that had failed
\* was answered with an error.
C1_Witness ==
    /\ req.method = "resolve_operation"
    /\ req.operation_id \in Created
    /\ Target.state = FAILED
    /\ resp.kind = "error"
    /\ resp.etype = "RuntimeError"

\* C2: get() returns the stored result exactly when the operation is
\* resolved, raises PendingOperationError carrying the operation's own id
\* exactly when it is pending and DeferredOperationError exactly when it is
\* failed, and changes neither the operation nor the registry.
C2_Step ==
    (req'.method = "DeferredOperation.probe" /\ req'.probe = "get") =>
        /\ ops' = ops
        /\ registry' = registry
        /\ (ops[req'.operation_id].state = RESOLVED) <=> (resp'.kind = "return")
        /\ resp'.kind = "return" => resp'.result = ops[req'.operation_id].result
        /\ (ops[req'.operation_id].state = PENDING) <=>
              (resp'.kind = "raise" /\ resp'.etype = "PendingOperationError")
        /\ resp'.etype = "PendingOperationError" => resp'.error.n = req'.operation_id
        /\ (ops[req'.operation_id].state = FAILED) <=>
              (resp'.kind = "raise" /\ resp'.etype = "DeferredOperationError")

C2_Get == [][C2_Step]_vars

\* C2 witness: get() of a failed operation raised the failed signal.
C2_Witness ==
    /\ Probed("get")
    /\ Target.state = FAILED
    /\ resp.etype = "DeferredOperationError"

\* C3: bool(), len() and iteration of a pending operation each raise
\* PendingOperationError carrying that operation's id; none returns a value.
C3_PendingTrap ==
    \A p \in {"bool", "len", "iter"} :
        (Probed(p) /\ Target.state = PENDING) =>
            /\ resp.kind = "raise"
            /\ resp.etype = "PendingOperationError"
            /\ resp.error.n = req.operation_id

\* C3 witness: len() of a pending operation raised the pending signal.
C3_Witness ==
    /\ Probed("len")
    /\ Target.state = PENDING
    /\ resp.etype = "PendingOperationError"

RECURSIVE Ascending(_)
Ascending(S) ==
    IF S = {} THEN <<>>
    ELSE LET m == CHOOSE x \in S : \A y \in S : x <= y
         IN  <<m>> \o Ascending(S \ {m})

Range(s) == {s[k] : k \in DOMAIN s}

\* The operations of the registry that are pending.
PendingSet(reg, os) == {i \in DOMAIN os : InRegistry(reg, i) /\ os[i].state = PENDING}

\* A statement of the last script probed (get, bool, len, iteration) an
\* operation that was pending.
PendingProbe(e) == e.k \in {"get", "bool", "len", "iter"} /\ e.was = PENDING

\* The execute was reported with the pending outcome.
PendingOutcome == resp.success = FALSE /\ resp.error_type = "PendingOperationError"

\* C5 as stated: for every script, the first probe of a pending placeholder
\* is the last statement evaluated, and the execute reports the pending
\* outcome.
C5_StopsAtFirstProbe ==
    resp.method = "execute" =>
        \A k \in DOMAIN trace :
            PendingProbe(trace[k]) => (k = Len(trace) /\ PendingOutcome)

\* C5 amended: a probe of a pending placeholder that the script does not
\* enclose in a try statement is the last statement evaluated, and the
\* execute reports the pending outcome naming the probed operation.
C5_UnguardedProbeStops ==
    resp.method = "execute" =>
        \A k \in DOMAIN trace :
            (PendingProbe(trace[k]) /\ ~req.script[k].guarded) =>
                /\ k = Len(trace)
                /\ PendingOutcome
                /\ resp.error.n = trace[k].n

\* C5 witness: a two-statement script stopped at its first statement, a
\* probe of a pending operation.
C5_Witness ==
    /\ resp.method = "execute"
    /\ Len(req.script) = 2
    /\ Len(trace) = 1
    /\ PendingProbe(trace[1])
    /\ PendingOutcome
    /\ Lookup(locals, "x") = Unbound

\* C6: every execute response, whatever its outcome, carries exactly the ids
\* of the registry's operations that are pending when it is built, in
\* creation order.
C6_ResponseListsAllPending ==
    resp.method = "execute" =>
        resp.pending_operations = Ascending(PendingSet(registry, ops))

\* C6 witness: an execute ended with the pending signal and its response
\* lists two pending operations.
C6_Witness ==
    /\ resp.method = "execute"
    /\ PendingOutcome
    /\ Len(resp.pending_operations) >= 2

\* C7: every execute response with error_type "PendingOperationError" has
\* success = false and a non-empty pending_operations that contains the id
\* of the operation whose probe raised the signal.
C7_PendingReplyListsProbed ==
    (resp.method = "execute" /\ resp.error_type = "PendingOperationError") =>
        /\ resp.success = FALSE
        /\ resp.pending_operations # <<>>
        /\ resp.error.n \in Range(resp.pending_operations)

\* C8: resolve_operation(id, r) that succeeds makes a pending operation
\* resolved with r; an operation resolved by the host stays so, its id is in
\* no pending list of a later reply (execute, pending_operations, status
\* count), get() on its handle in a later script returns r, and the script
\* "x = h.get()" succeeds and binds r.  (In the server the host's
\* resolve_operation is the only way an operation becomes resolved.)
C8_Step ==
    /\ (req'.method = "resolve_operation" /\ resp'.kind = "result") =>
          /\ req'.operation_id \in DOMAIN ops
          /\ ops[req'.operation_id].state = PENDING
          /\ ops'[req'.operation_id].state = RESOLVED
          /\ ops'[req'.operation_id].result = req'.value
    /\ \A i \in DOMAIN ops :
          ops[i].state = RESOLVED =>
            /\ ops'[i] = ops[i]
            /\ i \notin Range(pending_ids(registry', ops'))
            /\ resp'.method = "execute" =>
                  /\ i \notin Range(resp'.pending_operations)
                  /\ \A k \in DOMAIN trace' :
                        (trace'[k].k = "get" /\ trace'[k].n = i) =>
                            trace'[k].out = Return(ops[i].result)
                  /\ (req'.script = <<Get("x", "h")>> /\ Lookup(locals, "h") = OpRef(i)) =>
                        /\ resp'.success = TRUE
                        /\ Lookup(locals', "x") = ops[i].result
            /\ resp'.method = "pending_operations" =>
                  \A k \in DOMAIN resp'.operations : resp'.operations[k].id # i
            /\ resp'.method = "status" =>
                  resp'.count = Cardinality(PendingSet(registry', ops'))

C8_ResolvedStaysReadable == [][C8_Step]_vars

\* C8 witness: after the host resolved an operation with "ok", the script
\* x = h.get() on its handle succeeded and bound "ok".
C8_Witness ==
    /\ resp.method = "execute"
    /\ req.script = <<Get("x", "h")>>
    /\ Lookup(locals, "h").t = "op"
    /\ ops[Lookup(locals, "h").n].state = RESOLVED
    /\ resp.success = TRUE
    /\ Lookup(locals, "x") = StrV("ok")

\* C9: pending_ids() and pending_operations() are exactly the registry's
\* pending operations in creation order, after any interleaving of create,
\* resolve, fail and clear_resolved; the pending_operations request lists
\* the same operations in the same order with id, operation_type and params.
C9_PendingInCreationOrder ==
    /\ pending_ids(registry, ops) = Ascending(PendingSet(registry, ops))
    /\ pending_operations(registry, ops) = Ascending(PendingSet(registry, ops))
    /\ resp.method = "pending_operations" =>
          resp.operations =
              [k \in 1..Cardinality(PendingSet(registry, ops)) |->
                  [id |-> Ascending(PendingSet(registry, ops))[k],
                   operation_type |-> ops[Ascending(PendingSet(registry, ops))[k]].operation_type,
                   params |-> ops[Ascending(PendingSet(registry, ops))[k]].params]]

\* C9 witness: a pending_operations reply listing two pending operations
\* of different types.
C9_Witness ==
    /\ resp.method = "pending_operations"
    /\ Len(resp.operations) = 2
    /\ resp.operations[1].operation_type # resp.operations[2].operation_type

\* C10: DeferredRegistry.resolve and DeferredRegistry.fail of an id that is
\* not in the registry raise KeyError and change no operation and no
\* registry entry; resolve_operation with such an id is answered with a
\* JSON-RPC error and leaves the operations and the pending set unchanged.
C10_Step ==
    (/\ req'.method \in {"DeferredRegistry.resolve", "DeferredRegistry.fail", "resolve_operation"}
     /\ ~InRegistry(registry, req'.operation_id)) =>
        /\ ops' = ops
        /\ registry' = registry
        /\ pending_ids(registry', ops') = pending_ids(registry, ops)
        /\ resp'.etype = "KeyError"
        /\ resp'.kind = IF req'.method = "resolve_operation" THEN "error" ELSE "raise"
        /\ req'.method = "resolve_operation" => resp'.code = EXECUTION_ERROR

C10_UnknownIdRefused == [][C10_Step]_vars

\* C10 witness: resolve_operation named a pending operation that the
\* registry no longer holds, and was answered with an error.
C10_Witness ==
    /\ req.method = "resolve_operation"
    /\ req.operation_id \in Created
    /\ Target.state = PENDING
    /\ ~InRegistry(registry, req.operation_id)
    /\ resp.kind = "error"
    /\ resp.etype = "KeyError"

----------------------------------------------------------------------------
(* Claims about SUBMIT.                                                    *)

\* The statement noted at k was a SUBMIT call.
IsSubmit(tr, k) == tr[k].k = "submit"

\* Which SUBMIT call of its script the one noted at k is.
Ordinal(tr, k) == Cardinality({j \in 1..k : IsSubmit(tr, j)})

\* The script catches the SUBMIT signal of its k-th statement.
CatchesSignal(s) == s.guarded /\ s.base

\* C11 as stated: every SUBMIT call records an outcome and raises the
\* SUBMIT signal; for every script it is the last statement evaluated, and
\* the execute completes normally (a result, with no script error).
C11_SubmitHalts ==
    resp.method = "execute" =>
        \A k \in DOMAIN trace :
            IsSubmit(trace, k) =>
                /\ trace[k].out = Raise("SubmitSignal", 0, "")
                /\ trace[k].rec # NoSubmit
                /\ k = Len(trace)
                /\ resp.kind = "result"
                /\ resp.error_type \in {"", "SubmitValidationError"}

\* C11 amended: every SUBMIT call records an outcome and raises the SUBMIT
\* signal; a call that the script does not enclose in a try statement
\* catching BaseException is the last statement evaluated, and the execute
\* completes normally.
C11_UncaughtSubmitHalts ==
    resp.method = "execute" =>
        \A k \in DOMAIN trace :
            IsSubmit(trace, k) =>
                /\ trace[k].out = Raise("SubmitSignal", 0, "")
                /\ trace[k].rec # NoSubmit
                /\ ~CatchesSignal(req.script[k]) =>
                      /\ k = Len(trace)
                      /\ resp.kind = "result"
                      /\ resp.error_type \in {"", "SubmitValidationError"}

\* C11 witness: SUBMIT inside try / except Exception followed by an
\* assignment: the script stopped at the SUBMIT and x was not assigned.
C11_Witness ==
    /\ resp.method = "execute"
    /\ Len(req.script) = 2
    /\ req.script[1].k = "submit"
    /\ req.script[1].guarded
    /\ req.script[2] = Assign("x")
    /\ Len(trace) = 1
    /\ Lookup(locals, "x") = Unbound
    /\ resp.kind = "result"

\* The last SUBMIT call noted in tr.
LastSubmit(tr) == CHOOSE k \in DOMAIN tr : IsSubmit(tr, k) /\ \A j \in DOMAIN tr : IsSubmit(tr, j) => j <= k

\* C12: the submit bundle is reset at the start of every execute: a
\* response's submit_result is non-null only if SUBMIT was called during
\* that execute, and then it is the outcome of that execute's last call;
\* the count of each call is its rank within its own script, whatever an
\* earlier execute left behind.
C12_Step ==
    req'.method = "execute" =>
        /\ resp'.submit_result # NoSubmit =>
              /\ \E k \in DOMAIN trace' : IsSubmit(trace', k)
              /\ resp'.submit_result = trace'[LastSubmit(trace')].rec
        /\ \A k \in DOMAIN trace' :
              IsSubmit(trace', k) => trace'[k].count = Ordinal(trace', k)
        /\ (\A k \in DOMAIN trace' : ~IsSubmit(trace', k)) =>
              /\ submit_count' = 0
              /\ submit_result' = NoSubmit

C12_SubmitBundleReset == [][C12_Step]_vars

\* C12 witness: an execute caught its SUBMIT signal and then ended in an
\* error: the response has no submit_result and the sandbox is left holding
\* the outcome and the count.
C12_Witness ==
    /\ resp.method = "execute"
    /\ resp.success = FALSE
    /\ resp.error_type = "NameError"
    /\ resp.submit_result = NoSubmit
    /\ submit_result # NoSubmit
    /\ submit_count = 1

\* C13: within one execute the n-th SUBMIT call, n >= 2, records a
\* validation_error whose only error is multiple_submits with count n,
\* with or without a registered signature and whatever the outputs; a
\* response shows it when that call ended the script.
C13_MultipleSubmits ==
    resp.method = "execute" =>
        \A k \in DOMAIN trace :
            (IsSubmit(trace, k) /\ Ordinal(trace, k) >= 2) =>
                /\ trace[k].rec.status = "validation_error"
                /\ Len(trace[k].rec.errors) = 1
                /\ trace[k].rec.errors[1].error_type = "multiple_submits"
                /\ trace[k].rec.errors[1].count = Ordinal(trace, k)
                /\ k = Len(trace) => resp.submit_result = trace[k].rec

\* C13 witness: the third SUBMIT of a script, with outputs that fit the
\* registered signature, was answered with multiple_submits, count 3.
C13_Witness ==
    /\ resp.method = "execute"
    /\ Len(trace) = 3
    /\ IsSubmit(trace, 3) /\ Ordinal(trace, 3) = 3
    /\ signature_registration = Signature(<<FieldSpec("answer", FieldType("string", {}), TRUE)>>)
    /\ req.script[3].o.items["answer"] = StrV("test")
    /\ resp.submit_result.errors[1].count = 3

\* After the statement noted at k no statement let an exception out.
QuietAfter(tr, k) ==
    \A j \in DOMAIN tr : j > k => (tr[j].out.kind = "return" \/ tr[j].caught)

SingleSubmit ==
    /\ resp.method = "execute"
    /\ Len(req.script) = 1
    /\ req.script[1].k = "submit"
    /\ req.script[1].o.isdict
    /\ signature_registration.registered

\* The registered fields, and the value submitted for a field.
Fields == signature_registration.output_fields
Submitted(f) == req.script[1].o.items[f.name]
Present(f) == Submitted(f).t # "absent"

\* The errors of the response that name the field.
ErrorsFor(f) == SelectSeq(resp.submit_result.errors, LAMBDA e : e.field = f.name)

\* The value has exactly the declared scalar type.
ExactType(tag, v) ==
    \/ tag = "string" /\ v.t = "str"
    \/ tag = "integer" /\ v.t = "int"
    \/ tag = "float" /\ v.t = "float"
    \/ tag = "boolean" /\ v.t = "bool"

\* The value is one the declared scalar type takes: its own, and an integer
\* for float.
Accepted(tag, v) == ExactType(tag, v) \/ (tag = "float" /\ v.t = "int")

\* C15 as stated: for a field of type string, integer, float or boolean a
\* submitted value is accepted only if it has exactly the declared type;
\* every other value gives exactly one type_mismatch error for the field.
C15_ExactTypeCheck ==
    SingleSubmit =>
        \A i \in DOMAIN Fields :
            (Fields[i].field_type.type \in ScalarTypes /\ Present(Fields[i])) =>
                IF ExactType(Fields[i].field_type.type, Submitted(Fields[i]))
                THEN ErrorsFor(Fields[i]) = <<>>
                ELSE /\ Len(ErrorsFor(Fields[i])) = 1
                     /\ ErrorsFor(Fields[i])[1].error_type = "type_mismatch"

\* C15 amended: a value is accepted if it has exactly the declared type, and
\* an integer is accepted for float; a boolean is rejected for integer and
\* for float; every value that is not accepted gives exactly one
\* type_mismatch error for the field, naming the declared and the submitted
\* type.
C15_TypeCheck ==
    SingleSubmit =>
        \A i \in DOMAIN Fields :
            (Fields[i].field_type.type \in ScalarTypes /\ Present(Fields[i])) =>
                IF Accepted(Fields[i].field_type.type, Submitted(Fields[i]))
                THEN ErrorsFor(Fields[i]) = <<>>
                ELSE /\ Len(ErrorsFor(Fields[i])) = 1
                     /\ ErrorsFor(Fields[i])[1].error_type = "type_mismatch"
                     /\ ErrorsFor(Fields[i])[1].expected = Fields[i].field_type.type
                     /\ ErrorsFor(Fields[i])[1].got = type_name(Submitted(Fields[i]))

\* C15 witness: an integer submitted for a float field, next to a string
\* for a string field, passed validation.
C15_Witness ==
    /\ SingleSubmit
    /\ Len(Fields) = 2
    /\ Fields[1].name = "score" /\ Fields[1].field_type.type = "float"
    /\ Submitted(Fields[1]) = IntV(42)
    /\ Submitted(Fields[2]) = StrV("test")
    /\ resp.submit_result.status = "success"

\* The value fits the field type (the types the model registers).
ValueFits(ft, v) ==
    IF ft.type \in ScalarTypes THEN Accepted(ft.type, v)
    ELSE IF ft.type = "enum" THEN v.t = "str" /\ v.s \in ft.value
    ELSE ft.type = "custom"

\* The place of a field name in the registered signature.
FieldIndex(name) == CHOOSE i \in DOMAIN Fields : Fields[i].name = name

----------------------------------------------------------------------------
(* Claims about the server loop.                                           *)

\* The line handled last was a request.
IsRequest(l) == l.kind = "request"

\* C17: for every request with an id the server writes exactly one JSON-RPC
\* line, with that id; for a notification it writes nothing; nothing else
\* reaches standard output while a request is handled.
C17_Framing ==
    IsRequest(line) =>
        IF line.id # NoneV
        THEN /\ Len(written) = 1
             /\ written[1].raw = ""
             /\ written[1].id = line.id
        ELSE written = <<>>

\* C18: a shutdown request is answered with one success reply (when it has
\* an id) and the loop exits with it; the loop exits when it reads end of
\* file; once the loop has exited, or running is false, nothing is read,
\* dispatched or written.
C18_Step ==
    /\ loop = "reading"
    /\ running
    /\ (IsRequest(line') /\ line'.request.method = "shutdown") =>
          /\ resp' = [Reply("shutdown") EXCEPT !.flag = TRUE]
          /\ ~running'
          /\ loop' = "exited"
          /\ written' = IF line'.id # NoneV THEN <<RpcLine(line'.id, resp')>> ELSE <<>>
    /\ line'.kind = "eof" =>
          /\ loop' = "exited"
          /\ written' = <<>>

C18_ShutdownExits == [][C18_Step]_vars

\* C18 witness: a shutdown request with an id was acknowledged with one
\* line and the loop has exited, with operations still pending.
C18_Witness ==
    /\ IsRequest(line)
    /\ line.request.method = "shutdown"
    /\ line.id = IntV(7)
    /\ written = <<RpcLine(IntV(7), [Reply("shutdown") EXCEPT !.flag = TRUE])>>
    /\ ~running
    /\ loop = "exited"
    /\ registry # <<>>

\* C19: every execute request with valid params is answered through the
\* JSON-RPC result field, whatever the script does: the reply is a result
\* whose success flag and error_type describe the outcome, it is the line
\* written for a request with an id, and the server keeps serving.
C19_ExecuteAnswered ==
    (IsRequest(line) /\ line.request.method = "execute" /\ line.request.valid) =>
        /\ resp.kind = "result"
        /\ resp.success <=> resp.error_type = ""
        /\ line.id # NoneV => \E k \in DOMAIN written : written[k] = RpcLine(line.id, resp)
        /\ loop = "reading"

\* C20: a line that is not JSON is answered with one error reply of code
\* -32700 and JSON that is no request envelope with one of code -32600;
\* no method is dispatched, the session does not change and the loop goes
\* on reading.
C20_Step ==
    (loop = "reading" /\ line'.kind \in {"bad_json", "bad_envelope"}) =>
        /\ Len(written') = 1
        /\ written'[1].raw = ""
        /\ written'[1].reply.kind = "error"
        /\ written'[1].reply.code = IF line'.kind = "bad_json" THEN PARSE_ERROR
                                    ELSE INVALID_REQUEST
        /\ UNCHANGED session
        /\ loop' = "reading"

C20_BadLines == [][C20_Step]_vars

\* C20 witness: with an operation pending and a signature registered, a
\* malformed envelope was answered with -32600 and the loop reads on.
C20_Witness ==
    /\ line = BadEnvelope
    /\ written = <<RpcLine(NoneV, ErrorReply("", INVALID_REQUEST))>>
    /\ loop = "reading"
    /\ registry # <<>>
    /\ signature_registration.registered

\* The state of the session that requests observe and change.
state == <<ops, registry, locals, globals, running,
           signature_registration, submit_count, submit_result>>

\* This step handled the request of the line read (and is no direct call
\* on the sandbox).
Answered == line'.kind = "request" /\ req'.method = line'.request.method

\* C21: a request to a schema method whose params object lacks a required
\* field is answered with a JSON-RPC error of code -32602 and changes
\* nothing of the session; a request carrying a field its schema does not
\* know is handled as the request without it (execute runs the script,
\* set_variable binds the name, status answers).
C21_Step ==
    Answered =>
        /\ (/\ line'.request.method \in SchemaMethods
            /\ line'.request.shape = "object"
            /\ ~line'.request.valid) =>
                /\ resp'.kind = "error"
                /\ resp'.code = INVALID_PARAMS
                /\ UNCHANGED state
        /\ (line'.request.extra /\ line'.request.valid /\ line'.request.shape = "object") =>
                /\ resp'.kind = "result"
                /\ resp'.success
                /\ line'.request.method = "execute" => Lookup(locals', "x") = StrV("m")
                /\ line'.request.method = "set_variable" =>
                        Lookup(locals', line'.request.name) = line'.request.value
                /\ line'.request.method = "status" => UNCHANGED state

C21_InvalidParams == [][C21_Step]_vars

\* C21 witness: with x bound and an operation pending, a set_variable
\* without its value was answered with -32602.
C21_Witness ==
    /\ line.kind = "request"
    /\ line.request.method = "set_variable"
    /\ ~line.request.valid
    /\ req = line.request
    /\ resp.code = INVALID_PARAMS
    /\ Lookup(locals, "x") # Unbound
    /\ registry # <<>>

\* The request of the line read last is the one answered last.
AnsweredLast == line.kind = "request" /\ req.method = line.request.method

\* C22: a request whose params is a list, empty or not, is answered with
\* a JSON-RPC error of code -32602, whatever its method.
C22_ListParamsRejected ==
    (AnsweredLast /\ line.request.shape \in {"list", "empty_list"}) =>
        /\ resp.kind = "error"
        /\ resp.code = INVALID_PARAMS

\* C23: right after a reset request the session is fresh: status would
\* report no pending operation, no variable and no signature, no name but
\* the environment's own is bound, and no operation created before can be
\* resolved.  Nothing of before comes back later: an operation that is not
\* in the registry never enters it again, and every handle a variable
\* holds names an operation of the present registry.
C23_Step ==
    /\ (Answered /\ req'.method = "reset") =>
          /\ resp'.kind = "result"
          /\ StatusPending(registry', ops') = 0
          /\ variables_count(list_variables(locals', globals')) = 0
          /\ ~signature_registration'.registered
          /\ \A n \in Names \ (Helpers \cup Infrastructure) :
                get_variable(n, locals', globals').kind = "raise"
          /\ \A i \in DOMAIN ops :
                registry_resolve(registry', ops', i, StrV("ok")).out.kind = "raise"
    /\ \A i \in DOMAIN ops : ~InRegistry(registry, i) => ~InRegistry(registry', i)
    /\ \A n \in Names :
          /\ Lookup(locals', n).t = "op" => InRegistry(registry', Lookup(locals', n).n)
          /\ Lookup(globals', n).t = "op" => InRegistry(registry', Lookup(globals', n).n)

C23_ResetIsFresh == [][C23_Step]_vars

\* C23 witness: a reset was answered in a session that had created an
\* operation, and a status request after it reported a fresh session.
C23_Witness ==
    /\ AnsweredLast
    /\ req.method = "status"
    /\ ops # <<>>
    /\ registry = <<>>
    /\ resp.count = 0
    /\ resp.variables_count = 0
    /\ ~resp.signature_registered
    /\ locals = NoLocals

\* C24: a signature is registered after a step exactly when the step was a
\* register_signature that succeeded, or one was registered before and the
\* step was neither a clear_signature nor a reset; and a status request
\* reports just that.
C24_Step ==
    /\ signature_registration'.registered <=>
          \/ req'.method = "register_signature" /\ resp'.kind = "result"
          \/ /\ signature_registration.registered
             /\ req'.method \notin {"clear_signature", "reset"}
    /\ req'.method = "status" =>
          resp'.signature_registered = signature_registration'.registered

C24_SignatureRegistered == [][C24_Step]_vars

\* C24 witness: with a signature registered and an operation pending, a
\* status request reported signature_registered = true.
C24_Witness ==
    /\ AnsweredLast
    /\ req.method = "status"
    /\ resp.signature_registered
    /\ signature_registration.registered
    /\ resp.count > 0

\* C25: register_signature answers replaced = true exactly when a
\* signature was registered before the call; clear_signature succeeds and
\* answers cleared = true exactly when one was registered before the call,
\* and leaves none registered, so a second clear answers cleared = false.
C25_Step ==
    /\ (req'.method = "register_signature" /\ resp'.kind = "result") =>
          /\ resp'.flag <=> signature_registration.registered
          /\ signature_registration'.registered
    /\ req'.method = "clear_signature" =>
          /\ resp'.kind = "result"
          /\ resp'.success
          /\ resp'.flag <=> signature_registration.registered
          /\ ~signature_registration'.registered
    /\ (req.method = "clear_signature" /\ req'.method = "clear_signature") => ~resp'.flag

C25_ReplacedAndCleared == [][C25_Step]_vars

\* C25 witness: a register_signature over a registered signature answered
\* replaced = true.
C25_Witness ==
    /\ AnsweredLast
    /\ req.method = "register_signature"
    /\ resp.kind = "result"
    /\ resp.flag
    /\ signature_registration.registered

\* The type label a listing shows for a name, "" when it does not list it.
Label(listing, n) == IF n \in DOMAIN listing THEN listing[n] ELSE ""

\* The names a listing must not show: builtin infrastructure, helper
\* bindings and names beginning with an underscore.
Hidden == {n \in Names : n \in Helpers \cup Infrastructure \/ startswith(n, "_")}

\* The names bound in the session, in locals or in globals.
Bound == {n \in Names : Lookup(locals, n) # Unbound \/ Lookup(globals, n) # Unbound}

\* C26: whatever requests were handled, the variable listing shows no
\* hidden name, in the session as it is and in the reply of list_variables,
\* and the variables_count of status counts the other bound names only.
C26_NamespaceHygiene ==
    /\ \A n \in Hidden : Label(list_variables(locals, globals), n) = ""
    /\ (AnsweredLast /\ req.method = "list_variables") =>
          \A n \in Hidden : Label(resp.variables, n) = ""
    /\ (AnsweredLast /\ req.method = "status") =>
          resp.variables_count = Cardinality(Bound \ Hidden)

\* C26 witness: with "_" and x bound by set_variable and a handle bound by
\* a script, list_variables listed x and h only.
C26_Witness ==
    /\ AnsweredLast
    /\ req.method = "list_variables"
    /\ Lookup(locals, "_") = IntV(1)
    /\ Label(resp.variables, "x") = "int"
    /\ Label(resp.variables, "h") = "DeferredOperation"
    /\ Label(resp.variables, "_") = ""
    /\ Label(resp.variables, "peek") = ""

\* C27: a set_variable whose params validate is refused with a
\* SandboxError, the namespace unchanged, when the name begins with an
\* underscore and is not "_"; for every other name it succeeds and binds
\* the value, and a get_variable of the name right after answers it.
C27_Step ==
    /\ (Answered /\ req'.method = "set_variable" /\ ParamsOutcome(line'.request) = "ok") =>
          IF startswith(req'.name, "_") /\ req'.name # "_"
          THEN /\ resp'.kind = "error"
               /\ resp'.etype = "SandboxError"
               /\ UNCHANGED <<locals, globals>>
          ELSE /\ resp'.kind = "result"
               /\ get_variable(req'.name, locals', globals') = Return(req'.value)
    /\ (/\ req.method = "set_variable" /\ resp.kind = "result"
        /\ Answered /\ req'.method = "get_variable" /\ req'.name = req.name
        /\ ParamsOutcome(line'.request) = "ok") =>
          /\ resp'.kind = "result"
          /\ resp'.result = req.value

C27_SetVariableNames == [][C27_Step]_vars

\* C27 witness: after "_" was bound by set_variable, a set_variable of "_y"
\* was refused with a SandboxError.
C27_Witness ==
    /\ AnsweredLast
    /\ req.method = "set_variable"
    /\ req.name = "_y"
    /\ resp.etype = "SandboxError"
    /\ Lookup(locals, "_") = IntV(1)
    /\ Lookup(locals, "_y") = Unbound

\* The names the statements of a script assign.
Targets(script) == {script[k].t : k \in DOMAIN script}

\* C28: a request other than execute, set_variable and reset (and a clear
\* of the sandbox) leaves the namespace as it is; an execute changes only
\* the names its script assigns and a set_variable only the name it is
\* given.  What is bound is what later requests see: get_variable answers
\* the value, list_variables its type label, and a script reading the name
\* finds it.
C28_Step ==
    /\ req'.method \notin {"execute", "set_variable", "reset", "clear"} =>
          UNCHANGED <<locals, globals>>
    /\ req'.method = "execute" =>
          \A n \in Names \ Targets(req'.script) : Lookup(locals', n) = Lookup(locals, n)
    /\ req'.method = "set_variable" =>
          \A n \in Names \ {req'.name} : Lookup(locals', n) = Lookup(locals, n)
    /\ (Answered /\ ParamsOutcome(line'.request) = "ok") =>
          /\ (req'.method = "get_variable" /\ Lookup(locals, req'.name) # Unbound) =>
                /\ resp'.kind = "result"
                /\ resp'.result = serialize_result(Lookup(locals, req'.name))
          /\ req'.method = "list_variables" =>
                \A n \in Names \ Hidden :
                    Lookup(locals, n) # Unbound => Label(resp'.variables, n) = PyTypeName(Lookup(locals, n))
          /\ (req'.method = "execute" /\ req'.script = <<LenOf("x")>>
                                      /\ Lookup(locals, "x") # Unbound) =>
                trace'[1].out = PlainProbe("len", Lookup(locals, "x"))

C28_NamespacePersists == [][C28_Step]_vars

\* C28 witness: x was bound by set_variable, then rebound by a script;
\* later, with an operation created in between, get_variable answered the
\* script's value.
C28_Witness ==
    /\ AnsweredLast
    /\ req.method = "get_variable"
    /\ req.name = "x"
    /\ resp.result = StrV("m")
    /\ Lookup(globals, "x") = IntV(1)
    /\ Lookup(locals, "h").t = "op"

\* The statements that are expressions, and the value of the last
\* statement of an executed script when it is one (None otherwise).
Expressions == {"bool", "len", "iter", "str", "repr", "print", "print_pair"}
LastExpressionValue(tr) ==
    IF tr # <<>> /\ tr[Len(tr)].k \in Expressions /\ tr[Len(tr)].out.kind = "return"
    THEN serialize_result(tr[Len(tr)].out.value)
    ELSE NoneV

\* C29: the result of a successful execute is the value of the last
\* expression of its script, null when the script ends with no expression.
C29_LastExpression ==
    (AnsweredLast /\ req.method = "execute" /\ resp.kind = "result" /\ resp.success) =>
        resp.result = LastExpressionValue(trace)

\* Everything the statements of an executed script printed, in order.
RECURSIVE PrintedBy(_)
PrintedBy(tr) ==
    IF tr = <<>> THEN ""
    ELSE (IF Head(tr).k \in {"print", "print_pair"} THEN PrintedOf(Head(tr)) ELSE "")
         \o PrintedBy(Tail(tr))

\* C30: with capture_output set, the stdout of an execute response is
\* what the script printed during that execute, each print formatted with
\* its sep and end, also when the script ended by a pending signal or an
\* error after printing.
C30_Stdout ==
    (AnsweredLast /\ req.method = "execute" /\ req.capture_output /\ resp.kind = "result") =>
        resp.stdout = PrintedBy(trace)

\* The text holds the part somewhere.
Contains(text, part) ==
    \E k \in 1..(Len(text) - Len(part) + 1) : SubSeq(text, k, k + Len(part) - 1) = part

\* The twenty module names of the allow-list.
AllowList ==
    {"math", "re", "json", "collections", "itertools", "functools", "operator",
     "string", "textwrap", "datetime", "decimal", "fractions", "statistics",
     "random", "copy", "pprint", "dataclasses", "typing", "enum", "abc"}

\* The import statements an execute evaluated, by position in its script.
Imports(script, tr) == {k \in DOMAIN tr : script[k].k = "import"}

\* C31: an import statement that a script evaluates succeeds only when the
\* module name is on the allow-list, and then binds the module; for every
\* other name it raises a SandboxError whose message contains "not
\* allowed" and binds nothing, and unless the script catches the error the
\* execute answers success = false with error_type "SandboxError" and that
\* message.
C31_Step ==
    (Answered /\ req'.method = "execute") =>
        \A k \in Imports(req'.script, trace') :
            IF req'.script[k].v \in AllowList
            THEN /\ trace'[k].out.kind = "return"
                 /\ Lookup(locals', req'.script[k].t) = ModuleV(req'.script[k].v)
            ELSE /\ trace'[k].out.kind = "raise"
                 /\ trace'[k].out.etype = "SandboxError"
                 /\ Contains(trace'[k].out.value.s, "not allowed")
                 /\ Lookup(locals', req'.script[k].t) = Lookup(locals, req'.script[k].t)
                 /\ Lookup(globals', req'.script[k].t) = Lookup(globals, req'.script[k].t)
                 /\ ~trace'[k].caught =>
                        /\ resp'.kind = "result"
                        /\ ~resp'.success
                        /\ resp'.error_type = "SandboxError"
                        /\ Contains(resp'.error.text, "not allowed")
                        /\ k = Len(trace')

C32_ClearForgets ==
    req.method = "clear" =>
        /\ variables_count(list_variables(locals, globals)) = 0
        /\ \A n \in Names \ (Helpers \cup Infrastructure) :
              get_variable(n, locals, globals).kind = "raise"
        /\ \A n \in Helpers \cup Infrastructure :
              get_variable(n, locals, globals) = Return(FunctionV)

\* The kind stated for each asynchronous helper, and the synchronous
\* helpers.
StatedKind ==
    [find_relevant |-> "embed", summarize |-> "summarize", llm |-> "llm_call",
     llm_batch |-> "llm_batch", llm_query_batched |-> "llm_batch",
     map_reduce |-> "map_reduce", verify_claim |-> "llm_call",
     audit_reasoning |-> "llm_call"]
Synchronous == {"peek", "search", "count_tokens", "truncate", "extract_code_blocks"}

\* C33: a call of an asynchronous helper that succeeds adds exactly one
\* operation to the registry, pending and of the helper's stated kind,
\* after the ones that were there, and returns its handle, every other
\* operation being left as it was; llm_batch and llm_query_batched called
\* with contexts of another length than prompts raise and add nothing; a
\* synchronous helper returns and adds nothing.
C33_Step ==
    req'.method = "helper" =>
        /\ req'.name \in DOMAIN StatedKind \cup Synchronous
        /\ IF req'.name \in DOMAIN StatedKind /\ resp'.kind = "return"
           THEN /\ Len(ops') = Len(ops) + 1
                /\ \A i \in DOMAIN ops : ops'[i] = ops[i]
                /\ registry' = Append(registry, Len(ops'))
                /\ ops'[Len(ops')].state = PENDING
                /\ ops'[Len(ops')].operation_type = StatedKind[req'.name]
                /\ resp'.result = OpRef(Len(ops'))
                /\ pending_ids(registry', ops') = Append(pending_ids(registry, ops), Len(ops'))
           ELSE UNCHANGED <<ops, registry>>
        /\ (req'.name \in {"llm_batch", "llm_query_batched"} /\ ~req'.valid) =>
                resp'.kind = "raise"
        /\ (req'.name \in DOMAIN StatedKind
                /\ (req'.valid \/ req'.name \notin {"llm_batch", "llm_query_batched"})) =>
                resp'.kind = "return"
        /\ req'.name \in Synchronous => resp'.kind = "return"

C33_HelpersMint == [][C33_Step]_vars

\* C33 witness: with an earlier operation resolved, llm_query_batched
\* returned the handle of a new pending llm_batch operation.
C33_Witness ==
    /\ req.method = "helper"
    /\ req.name = "llm_query_batched"
    /\ resp.kind = "return"
    /\ resp.result = OpRef(2)
    /\ ops[2].operation_type = "llm_batch"
    /\ ops[2].state = PENDING
    /\ ops[1].state = RESOLVED
    /\ registry = <<1, 2>>

\* result and error of an operation go with its state: neither is set
\* while it is pending, only result once it is resolved, only error once
\* it is failed.
Tied(op) ==
    /\ op.state = PENDING => (op.result = NoneV /\ op.error = NoneV)
    /\ op.state = RESOLVED => op.error = NoneV
    /\ op.state = FAILED => (op.result = NoneV /\ op.error # NoneV)

\* C34: after every call, result and error of every operation go with its
\* state; an operation keeps its place among the objects (its id), its
\* kind and its params; result or error is written only by the call that
\* takes the operation out of pending, which writes the value it was given,
\* and a terminal operation is never written again.
C34_Step ==
    ops' # ops =>
        /\ Len(ops') >= Len(ops)
        /\ \A i \in DOMAIN ops :
              /\ ops'[i].operation_type = ops[i].operation_type
              /\ ops'[i].params = ops[i].params
              /\ ops[i].state # PENDING => ops'[i] = ops[i]
              /\ ops'[i].state = PENDING => ops'[i] = ops[i]
              /\ (ops[i].state = PENDING /\ ops'[i].state = RESOLVED) =>
                    /\ req'.method \in ResolveCalls
                    /\ req'.operation_id = i
                    /\ ops'[i].result = req'.value
              /\ (ops[i].state = PENDING /\ ops'[i].state = FAILED) =>
                    /\ req'.method \in FailCalls
                    /\ req'.operation_id = i
                    /\ ops'[i].error = req'.value

C34_ResultErrorExclusive ==
    /\ [](\A i \in DOMAIN ops : Tied(ops[i]))
    /\ [][C34_Step]_vars

\* C34 witness: one operation failed with its error and no result, another
\* resolved with its result and no error, and a further resolve of the
\* failed one was refused.
C34_Witness ==
    /\ Len(ops) = 2
    /\ ops[1].state = FAILED
    /\ ops[1].error = StrV("boom")
    /\ ops[1].result = NoneV
    /\ ops[2].state = RESOLVED
    /\ ops[2].result = StrV("ok")
    /\ ops[2].error = NoneV
    /\ req.method \in ResolveCalls
    /\ req.operation_id = 1
    /\ resp.kind \in {"raise", "error"}

\* C35: clear_resolved() removes from the registry exactly the entries that
\* are resolved or failed and returns how many they were; every pending
\* entry stays, in the same order, with its state, so pending_ids() is
\* unchanged; an id it removed is unknown to resolve and to fail afterwards
\* (KeyError), as every later call on such an id answers.
C35_Step ==
    /\ req'.method = "DeferredRegistry.clear_resolved" =>
          /\ registry' = SelectSeq(registry, LAMBDA i : ops[i].state = PENDING)
          /\ \A k \in DOMAIN registry' : ops'[registry'[k]].state = PENDING
          /\ resp'.kind = "return"
          /\ resp'.result = IntV(Len(registry) - Len(registry'))
          /\ ops' = ops
          /\ pending_ids(registry', ops') = pending_ids(registry, ops)
          /\ \A k \in DOMAIN registry :
                ops[registry[k]].state \in {RESOLVED, FAILED} =>
                    /\ ~InRegistry(registry', registry[k])
                    /\ registry_resolve(registry', ops', registry[k], StrV("ok")).out
                          = Raise("KeyError", 0, "Unknown operation")
                    /\ registry_fail(registry', ops', registry[k], StrV("boom")).out
                          = Raise("KeyError", 0, "Unknown operation")
    /\ (req'.method \in {"DeferredRegistry.resolve", "DeferredRegistry.fail"}
            /\ ~InRegistry(registry, req'.operation_id)) =>
          /\ resp'.etype = "KeyError"
          /\ ops' = ops

C35_ClearResolved == [][C35_Step]_vars

\* C35 witness: clear_resolved removed the failed entry, answered 1 and
\* kept the pending entry created after it.
C35_Witness ==
    /\ req.method = "DeferredRegistry.clear_resolved"
    /\ resp.result = IntV(1)
    /\ Len(ops) = 2
    /\ ops[1].state = FAILED
    /\ ops[2].state = PENDING
    /\ registry = <<2>>

\* C36: a request answered with a JSON-RPC error leaves the session as it
\* was: namespace, registry and the state of every operation, registered
\* signature and running flag.  The requests answered so are those to an
\* unknown method (code -32601), those with invalid params (-32602),
\* get_variable of a name bound nowhere, set_variable of a name beginning
\* with an underscore other than "_", and resolve_operation of an id the
\* registry does not hold or whose operation is no longer pending (-32000).
C36_Step ==
    Answered =>
        /\ resp'.kind = "error" => state' = state
        /\ req'.method \notin Methods <=> resp'.code = METHOD_NOT_FOUND
        /\ (req'.method \in Methods /\ ParamsOutcome(req') = "invalid")
              <=> resp'.code = INVALID_PARAMS
        /\ (req'.method \in Methods /\ ParamsOutcome(req') = "ok") =>
              /\ (req'.method = "get_variable"
                      /\ req'.name \notin DOMAIN locals \cup DOMAIN globals) =>
                    (resp'.kind = "error" /\ resp'.code = EXECUTION_ERROR)
              /\ (req'.method = "set_variable" /\ startswith(req'.name, "_")
                      /\ req'.name # "_") =>
                    (resp'.kind = "error" /\ resp'.code = EXECUTION_ERROR)
              /\ (req'.method = "resolve_operation"
                      /\ (~InRegistry(registry, req'.operation_id)
                            \/ ops[req'.operation_id].state # PENDING)) =>
                    (resp'.kind = "error" /\ resp'.code = EXECUTION_ERROR)

C36_ErrorsLeaveSession == [][C36_Step]_vars

\* C36 witness: with a variable bound, a signature registered and an
\* operation resolved, a second resolve_operation of it was answered with
\* an error.
C36_Witness ==
    /\ req.method = "resolve_operation"
    /\ resp.kind = "error"
    /\ resp.code = EXECUTION_ERROR
    /\ Len(ops) >= 1
    /\ ops[1].state = RESOLVED
    /\ InRegistry(registry, 1)
    /\ Lookup(locals, "x") # Unbound
    /\ signature_registration.registered

\* What a first SUBMIT of outputs records under a registration.
Recorded(registration, outputs) ==
    IF registration.registered
    THEN Validated(validate_submit_outputs(registration, outputs), outputs)
    ELSE ValidationError(<<SubmitError("no_signature_registered", "")>>, outputs)

\* C37: the server's registration is the one of the most recent
\* register_signature, and none after a clear_signature or reset with no
\* later registration; an execute leaves it as it is, and the first SUBMIT
\* of its script is validated against it: it records
\* no_signature_registered when none is registered and the validation of
\* its outputs against the registered fields otherwise.
C37_Step ==
    /\ req'.method = "register_signature" =>
          signature_registration' = Signature(req'.output_fields)
    /\ req'.method \in {"clear_signature", "reset"} =>
          signature_registration' = NoSignature
    /\ req'.method = "execute" =>
          /\ UNCHANGED signature_registration
          /\ \A k \in DOMAIN trace' :
                (trace'[k].k = "submit" /\ trace'[k].count = 1) =>
                    trace'[k].rec = Recorded(signature_registration,
                                             trace'[k].rec.outputs)

C37_SignatureInForce == [][C37_Step]_vars

\* C37 witness: under a registered signature of one required string field
\* an execute submitted a value that is no string for it and the type
\* mismatch was recorded.
C37_Witness ==
    /\ req.method = "execute"
    /\ signature_registration
          = Signature(<<FieldSpec("answer", FieldType("string", {}), TRUE)>>)
    /\ Len(trace) = 1
    /\ trace[1].k = "submit"
    /\ trace[1].count = 1
    /\ trace[1].rec.status = "validation_error"
    /\ trace[1].rec.errors[1].error_type = "type_mismatch"

\* C38: bool(), len() and iteration of an operation whose state is failed
\* raise PendingOperationError carrying the operation's id, where get() of
\* the same operation raises DeferredOperationError; when the script does
\* not catch it, the execute is answered with error_type
\* "PendingOperationError" naming that id, and the id is not among the
\* pending_operations of the response.
C38_Step ==
    req'.method = "execute" =>
        \A k \in DOMAIN trace' :
            trace'[k].was = FAILED =>
                /\ trace'[k].k \in {"bool", "len", "iter"} =>
                      /\ trace'[k].out = PendingOperationError(trace'[k].n)
                      /\ ~trace'[k].caught =>
                            /\ k = Len(trace')
                            /\ resp'.kind = "result"
                            /\ ~resp'.success
                            /\ resp'.error_type = "PendingOperationError"
                            /\ resp'.error.n = trace'[k].n
                            /\ trace'[k].n \notin Range(resp'.pending_operations)
                /\ trace'[k].k = "get" =>
                      /\ trace'[k].out.kind = "raise"
                      /\ trace'[k].out.etype = "DeferredOperationError"
                      /\ ~trace'[k].caught =>
                            resp'.error_type = "DeferredOperationError"

C39_Step ==
    (loop = "reading" /\ IsRequest(line') /\ line'.id = NoneV) =>
        /\ handle_request(line'.request)
        /\ \A k \in DOMAIN written' : written'[k].raw # ""
        /\ (line'.request.method = "set_variable" /\ line'.request.valid) =>
              /\ Lookup(locals', line'.request.name) = line'.request.value
              /\ Lookup(globals', line'.request.name) = line'.request.value
        /\ (line'.request.method = "execute" /\ line'.request.valid) =>
              /\ line'.request.script = <<Assign("x")>> =>
                    (Lookup(locals', "x").t = "str" /\ trace' # <<>>)
              /\ line'.request.script = <<Llm("h")>> =>
                    /\ Len(ops') = Len(ops) + 1
                    /\ Lookup(locals', "h") = OpRef(Len(ops'))
                    /\ registry' = Append(registry, Len(ops'))
        /\ (line'.request.method = "resolve_operation"
                /\ InRegistry(registry, line'.request.operation_id)
                /\ ops[line'.request.operation_id].state = PENDING) =>
              ops'[line'.request.operation_id].state = RESOLVED
        /\ line'.request.method = "register_signature" =>
              signature_registration' = Signature(line'.request.output_fields)
        /\ line'.request.method = "reset" =>
              /\ registry' = <<>>
              /\ locals' = NoLocals
              /\ signature_registration' = NoSignature
        /\ line'.request.method = "shutdown" =>
              (~running' /\ loop' = "exited")

C39_NotificationsDispatched == [][C39_Step]_vars

\* C39 witness: a set_variable notification bound x after an execute
\* notification had created an operation, and nothing was written.
C39_Witness ==
    /\ IsRequest(line)
    /\ line.id = NoneV
    /\ line.request.method = "set_variable"
    /\ Lookup(locals, "x") = IntV(1)
    /\ Lookup(globals, "x") = IntV(1)
    /\ Len(ops) = 1
    /\ written = <<>>
    /\ loop = "reading"

\* The helper and infrastructure names that do not begin with an
\* underscore, and what a script or get_variable finds under a name.
OpenNames == {n \in Helpers \cup Infrastructure : ~startswith(n, "_")}
Seen(n, ns, g) == IF n \in DOMAIN ns THEN ns[n] ELSE Lookup(g, n)

\* C40: set_variable of a helper or infrastructure name that does not
\* begin with an underscore succeeds; scripts and get_variable then find
\* the supplied value under the name (a call of the replaced helper is a
\* TypeError), list_variables still leaves the name out, and the installed
\* binding is found again only after Sandbox.clear() or a reset, which
\* both bring it back.
C40_Step ==
    /\ (req'.method = "set_variable" /\ ParamsOutcome(req') = "ok"
            /\ req'.name \in OpenNames) =>
          /\ resp'.kind = "result"
          /\ Seen(req'.name, locals', globals') = req'.value
          /\ get_variable(req'.name, locals', globals') = Return(req'.value)
          /\ req'.name \notin DOMAIN list_variables(locals', globals')
    /\ \A n \in OpenNames :
          /\ (Seen(n, locals, globals) # FunctionV
                  /\ Seen(n, locals', globals') = FunctionV) =>
                req'.method \in {"clear", "reset"}
          /\ req'.method \in {"clear", "reset"} =>
                Seen(n, locals', globals') = FunctionV
          /\ req'.method = "list_variables" => n \notin DOMAIN resp'.variables
    /\ (req'.method = "execute" /\ req'.script = <<Apply("x", "peek")>>) =>
          IF Seen("peek", locals, globals) = FunctionV
          THEN resp'.success
          ELSE /\ ~resp'.success
               /\ resp'.error_type = "TypeError"
               /\ Seen("peek", locals', globals') = Seen("peek", locals, globals)

C40_EnvironmentOverridden == [][C40_Step]_vars

\* C40 witness: with peek and DeferredOperation both replaced by
\* set_variable, a script calling peek failed with a TypeError, and the
\* listing would show neither name.
C40_Witness ==
    /\ req.method = "execute"
    /\ req.script = <<Apply("x", "peek")>>
    /\ resp.error_type = "TypeError"
    /\ Seen("peek", locals, globals) = IntV(1)
    /\ Lookup(globals, "peek") = IntV(1)
    /\ Seen("DeferredOperation", locals, globals) = IntV(1)
    /\ DOMAIN list_variables(locals, globals) \cap OpenNames = {}

====
